---- MODULE Spec2Model ----
(***************************************************************************)
(* Verification model of the municipal back-office application:            *)
(*   - integraciones/codart.py : the CODART lookup client (DNI / RUC)      *)
(*   - comercio/sheets_comercio.py : the spreadsheet-backed store          *)
(*   - comercio/app_permisos.py, app_documentos.py : form validators       *)
(* Strings the code inspects character by character (identifiers) are      *)
(* sequences of one-character strings.  Texts the code only truncates and  *)
(* searches (HTTP bodies) are records of their length and of the offset    *)
(* at which the text "HTTP 404" / "HTTP 406" ends in them (0: absent).      *)
(***************************************************************************)
EXTENDS Integers, Sequences, FiniteSets, TLC

VARIABLES
    \* ---- lookup client (codart.py) ----
    token,      \* CODART_TOKEN is configured
    upstream,   \* which answers the upstream service gives in this run
    callsLeft,  \* lookups the session still makes
    now,        \* clock, seconds
    cache,      \* st.cache_data: <<function, argument>> -> [val, at]
    pc,         \* position of the running lookup
    fn,         \* "dni" | "ruc": consultar_dni / consultar_ruc
    arg,        \* the argument string as passed
    ep,         \* "A" primary url_a, "B" secondary url_b
    resp,       \* _get_json locals
    resp2,
    resp3,
    exc,        \* the CodartAPIError in flight
    outcome,    \* what the call gave its caller
    sent,       \* requests issued by the running call, in order
    prim,       \* what the primary endpoint answered in the running call
    prev,       \* summary of the call finished before the running one
    \* ---- identifier validators ----
    idstr,      \* identifier under validation
    verdict,    \* what the validators said
    \* ---- spreadsheet store (sheets_comercio.py) ----
    store,      \* tab -> rows of cells, header row first
    call,       \* user session -> its running store call
    wsCache,    \* st.cache_resource holds the certificates worksheet
    \* ---- pages (app_documentos.py, app_permisos.py, ...) ----
    ui          \* user session -> st.session_state and what the page shows

lookupVars == <<token, upstream, callsLeft, now, cache, pc, fn, arg, ep, resp,
                resp2, resp3, exc, outcome, sent, prim, prev>>
validVars == <<idstr, verdict>>
storeVars == <<store, call, wsCache, ui>>

(***************************************************************************)
(* Bounds                                                                  *)
(***************************************************************************)
MaxTicks == 2       \* clock ticks (of half a cache window) a run sees
MaxCalls == 2       \* lookups of a session against the steady upstream
MaxDigits == 12     \* longest digit run among the identifiers validated
MaxRows == 2        \* data rows the tabs hold together
MaxCerts == 1      \* certificates a session saves to the certificates sheet
MaxName == 3        \* characters of the longest file-name stem cleaned

(***************************************************************************)
(* Strings                                                                 *)
(***************************************************************************)
DigitChars == {"0", "1", "2", "3", "4", "5", "6", "7", "8", "9"}
\* the whitespace str.strip() removes, as far as the inputs hold it
SpaceChars == {" ", "\t", "\n", "\r"}

\* str.isdigit(): non-empty and every character a digit
isdigit(s) == Len(s) > 0 /\ \A i \in 1..Len(s) : s[i] \in DigitChars

RECURSIVE lstrip(_)
lstrip(s) == IF s # <<>> /\ Head(s) \in SpaceChars THEN lstrip(Tail(s)) ELSE s

RECURSIVE rstrip(_)
rstrip(s) == IF s # <<>> /\ s[Len(s)] \in SpaceChars
             THEN rstrip(SubSeq(s, 1, Len(s) - 1)) ELSE s

\* str.strip()
strip(s) == rstrip(lstrip(s))

\* n copies of the character c
RECURSIVE Rep(_, _)
Rep(c, n) == IF n = 0 THEN <<>> ELSE <<c>> \o Rep(c, n - 1)

(***************************************************************************)
(* codart.py: validators                                                   *)
(***************************************************************************)
validar_dni_len8_only(dni) ==
    LET d == strip(dni)
    IN  IF Len(d) = 8 THEN [ok |-> TRUE, val |-> d] ELSE [ok |-> FALSE, val |-> <<>>]

validar_dni(dni) ==
    LET d == strip(dni)
    IN  IF ~(isdigit(d) /\ Len(d) = 8)
        THEN [ok |-> FALSE, val |-> <<>>]       \* raise ValueError
        ELSE [ok |-> TRUE, val |-> d]

validar_ruc(ruc) ==
    LET r == strip(ruc)
    IN  IF ~(isdigit(r) /\ Len(r) = 11)
        THEN [ok |-> FALSE, val |-> <<>>]       \* raise ValueError
        ELSE [ok |-> TRUE, val |-> r]

doc_identidad_valido_dni_only(val) ==
    LET doc == strip(val)
    IN  isdigit(doc) /\ Len(doc) = 8

\* app_permisos.py / app_documentos.py: DNI 8 digits, CE 9 digits
doc_identidad_valido(val) ==
    LET doc == strip(val)
    IN  isdigit(doc) /\ Len(doc) \in {8, 9}

(***************************************************************************)
(* sheets_comercio.py: tabs, declared columns, cells of the spreadsheet.   *)
(* A cell is a string; a tab is the list of its rows, header row first,    *)
(* as get_all_values() returns it (<<>>: the tab holds no value).          *)
(***************************************************************************)
EVAL_SHEET_NAME == "Evaluaciones_CA"
AUTO_SHEET_NAME == "Autorizaciones_CA"
DOCS_SHEET_NAME == "Documentos_CA"

COLUMNAS_EVALUACION ==
    << "N°", "NUMERO DE DOCUMENTO SIMPLE", "NOMBRES Y APELLIDOS", "N° DE EVALUACIÓN",
       "FECHA", "N° DE RESOLUCIÓN", "FECHA DE RESOLUCIÓN", "N° DE AUTORIZACIÓN",
       "FECHA DE AUTORIZACION" >>

COLUMNAS_AUTORIZACION ==
    << "FECHA DE INGRESO", "D.S", "NOMBRE Y APELLIDO", "DNI", "GENERO",
       "DOMICILIO FISCAL", "CERTIFICADO ANTERIOR",
       "FECHA EMITIDA CERTIFICADO ANTERIOR",
       "FECHA DE CADUCIDAD CERTIFICADO ANTERIOR", "N° DE EVALUACION",
       "FECHA DE EVALUACION", "N° DE RESOLUCIÓN", "FECHA RESOLUCIÓN",
       "N° DE CERTIFICADO", "FECHA EMITIDA CERTIFICADO", "VIGENCIA DE AUTORIZACIÓN",
       "LUGAR DE VENTA", "COORDENADAS", "REFERENCIA", "GIRO", "HORARIO",
       "N° TELEFONO", "TIEMPO", "PLAZO" >>

COLUMNAS_DOCUMENTOS ==
    << "ESTADO", "N°", "FECHA DE INGRESO", "N° DE DOCUMENTO SIMPLE", "ASUNTO",
       "NOMBRE Y APELLIDO", "DNI", "DOMICILIO FISCAL",
       "GIRO O MOTIVO DE LA SOLICITUD", "UBICACIÓN A SOLICITAR", "N° DE CELULAR",
       "PROCEDENTE / IMPROCEDENTE", "N° DE CARTA", "FECHA DE LA CARTA",
       "FECHA DE NOTIFICACION", "FOLIOS" >>

(***************************************************************************)
(* app_anuncios.py: the certificates sheet                                 *)
(***************************************************************************)
SHEET_NAME == "Hoja 1"

COLUMNAS_OFICIALES ==
    << "EXP", "N° RECIBO", "FECHA DE INGRESO", "RUC DE LA EMPRESA",
       "NÚMERO DE AUTORIZACION ", "FECHA DE EMISIÓN DE LA AUTORIZACION",
       "FECHA DE EXPIRACIÓN DE LA AUTORIZACION",
       "TIPO DE DOCUMENTO DE IDENTIDAD DEL SOLICITANTE",
       "NÚMERO DE DOCUMENTO DE IDENTIDAD DEL SOLICITANTE",
       "APELLIDO PATERNO DEL SOLICITANTE", "APELLIDO MATERNO DEL SOLICITANTE",
       "NOMBRE DEL SOLICITANTE", "RAZÓN SOCIAL DEL SOLICITANTE",
       "CARACTERISTICA FISICA DEL PANEL", "CARACTERISTICA TECNICA DEL PANEL",
       "TIPO DE ANUNCIPO PUBLICITARIO (Móvil, paneles, banderolas, etc.)",
       "DIRECCION", "UBICACIÓN", "LEYENDA", "LARGO", "ALTO", "ANCHO", "GROSOR",
       "LONGUITUD DE SOPORTES", "COLOR", "MATERIAL", "N° CARAS", "COORDENADAS" >>

Tabs == {EVAL_SHEET_NAME, AUTO_SHEET_NAME, DOCS_SHEET_NAME, SHEET_NAME}

\* auto_numero_col=None
None == "None"
\* a keyword argument without default value
Required == "<required>"

\* the dict "fila" of each wrapper: <<column, keyword, default of the keyword>>
append_evaluacion_fila ==
    << <<"NUMERO DE DOCUMENTO SIMPLE", "num_ds", Required>>,
       <<"NOMBRES Y APELLIDOS", "nombre_completo", Required>>,
       <<"N° DE EVALUACIÓN", "cod_evaluacion", Required>>,
       <<"FECHA", "fecha_eval", Required>>,
       <<"N° DE RESOLUCIÓN", "cod_resolucion", "">>,
       <<"FECHA DE RESOLUCIÓN", "fecha_resolucion", "">>,
       <<"N° DE AUTORIZACIÓN", "num_autorizacion", "">>,
       <<"FECHA DE AUTORIZACION", "fecha_autorizacion", "">> >>

append_autorizacion_fila ==
    << <<"FECHA DE INGRESO", "fecha_ingreso", Required>>,
       <<"D.S", "ds", Required>>,
       <<"NOMBRE Y APELLIDO", "nombre", Required>>,
       <<"DNI", "dni", Required>>,
       <<"GENERO", "genero", Required>>,
       <<"DOMICILIO FISCAL", "domicilio_fiscal", Required>>,
       <<"CERTIFICADO ANTERIOR", "certificado_anterior", Required>>,
       <<"FECHA EMITIDA CERTIFICADO ANTERIOR", "fecha_emitida_cert_anterior", Required>>,
       <<"FECHA DE CADUCIDAD CERTIFICADO ANTERIOR", "fecha_caducidad_cert_anterior",
         Required>>,
       <<"N° DE EVALUACION", "num_eval", Required>>,
       <<"FECHA DE EVALUACION", "fecha_eval", Required>>,
       <<"N° DE RESOLUCIÓN", "num_resolucion", Required>>,
       <<"FECHA RESOLUCIÓN", "fecha_resolucion", Required>>,
       <<"N° DE CERTIFICADO", "num_certificado", Required>>,
       <<"FECHA EMITIDA CERTIFICADO", "fecha_emitida_cert", Required>>,
       <<"VIGENCIA DE AUTORIZACIÓN", "vigencia_autorizacion", Required>>,
       <<"LUGAR DE VENTA", "lugar_venta", Required>>,
       <<"COORDENADAS", "coordenadas", "">>,
       <<"REFERENCIA", "referencia", Required>>,
       <<"GIRO", "giro", Required>>,
       <<"HORARIO", "horario", Required>>,
       <<"N° TELEFONO", "telefono", "">>,
       <<"TIEMPO", "tiempo", "">>,
       <<"PLAZO", "plazo", "">> >>

append_documento_fila ==
    << <<"ESTADO", "estado", "PENDIENTE">>,
       <<"FECHA DE INGRESO", "fecha_ingreso", Required>>,
       <<"N° DE DOCUMENTO SIMPLE", "num_documento_simple", Required>>,
       <<"ASUNTO", "asunto", Required>>,
       <<"NOMBRE Y APELLIDO", "nombre", Required>>,
       <<"DNI", "dni", Required>>,
       <<"DOMICILIO FISCAL", "domicilio_fiscal", Required>>,
       <<"GIRO O MOTIVO DE LA SOLICITUD", "giro_motivo", Required>>,
       <<"UBICACIÓN A SOLICITAR", "ubicacion_solicitar", Required>>,
       <<"N° DE CELULAR", "celular", Required>>,
       <<"PROCEDENTE / IMPROCEDENTE", "procedencia", Required>>,
       <<"N° DE CARTA", "num_carta", "">>,
       <<"FECHA DE LA CARTA", "fecha_carta", "">>,
       <<"FECHA DE NOTIFICACION", "fecha_notificacion", "">>,
       <<"FOLIOS", "folios", "">> >>

AppendOps == {"append_evaluacion", "append_autorizacion", "append_documento"}

SheetOf(op) ==
    CASE op \in {"append_evaluacion", "actualizar_evaluacion_con_resolucion",
                 "leer_evaluaciones"} ->
            EVAL_SHEET_NAME
      [] op \in {"append_autorizacion", "actualizar_autorizacion_resolucion_y_cert",
                 "leer_autorizaciones"} ->
            AUTO_SHEET_NAME
      [] op = "guardar_certificado_en_bd" -> SHEET_NAME
      [] OTHER -> DOCS_SHEET_NAME

ColumnasOf(op) ==
    CASE op \in {"append_evaluacion", "actualizar_evaluacion_con_resolucion",
                 "leer_evaluaciones"} ->
            COLUMNAS_EVALUACION
      [] op \in {"append_autorizacion", "actualizar_autorizacion_resolucion_y_cert",
                 "leer_autorizaciones"} ->
            COLUMNAS_AUTORIZACION
      [] op = "guardar_certificado_en_bd" -> COLUMNAS_OFICIALES
      [] OTHER -> COLUMNAS_DOCUMENTOS

FilaOf(op) ==
    CASE op = "append_evaluacion" -> append_evaluacion_fila
      [] op = "append_autorizacion" -> append_autorizacion_fila
      [] OTHER -> append_documento_fila

\* the auto_numero_col each wrapper passes to _append_fila
AutoNumeroCol(op) == IF op = "append_autorizacion" THEN None ELSE "N°"

Range(s) == {s[i] : i \in DOMAIN s}

\* the dict a wrapper builds from its keyword arguments kw
Fila(op, kw) ==
    LET T == Range(FilaOf(op))
    IN  [c \in {t[1] : t \in T} |->
            LET t == CHOOSE x \in T : x[1] = c
            IN  IF t[2] \in DOMAIN kw THEN kw[t[2]] ELSE t[3]]

\* str(n) of a non-negative integer
Digit == <<"0", "1", "2", "3", "4", "5", "6", "7", "8", "9">>
RECURSIVE Str(_)
Str(n) == IF n < 10 THEN Digit[n + 1] ELSE Str(n \div 10) \o Digit[(n % 10) + 1]

IsEmptyRow(r) == \A j \in DOMAIN r : r[j] = ""

\* the sheet API returns the cells up to the last row that holds a value
RECURSIVE get_all_values(_)
get_all_values(g) ==
    IF g # <<>> /\ IsEmptyRow(g[Len(g)])
    THEN get_all_values(SubSeq(g, 1, Len(g) - 1))
    ELSE g

\* ws.clear()
ws_clear(g) == <<>>

\* ws.update("A1", values): the given cells are written from the top-left
\* corner, every other cell keeps its value
ws_update(g, values) ==
    LET n == IF Len(g) > Len(values) THEN Len(g) ELSE Len(values)
        row(i) == IF i > Len(values) THEN g[i]
                  ELSE IF i > Len(g) THEN values[i]
                  ELSE values[i] \o SubSeq(g[i], Len(values[i]) + 1, Len(g[i]))
    IN  [i \in 1..n |-> row(i)]

\* _leer_df that takes the cells by position, whatever the header says
leer_df_by_position(values, columnas) ==
    IF values = <<>> THEN <<>>
    ELSE [i \in 1..(Len(values) - 1) |->
            [j \in DOMAIN columnas |->
                IF j <= Len(values[i + 1]) THEN values[i + 1][j] ELSE ""]]

\* _leer_df: the data rows, one cell per declared column, taken from the
\* sheet column of that name; "" where the header lacks the column
leer_df(values, columnas) ==
    IF values = <<>> THEN <<>>
    ELSE LET header == values[1]
             cell(fila, col) ==
                 IF \E k \in DOMAIN header : header[k] = col
                 THEN fila[CHOOSE k \in DOMAIN header : header[k] = col]
                 ELSE ""
         IN  [i \in 1..(Len(values) - 1) |->
                [j \in DOMAIN columnas |-> cell(values[i + 1], columnas[j])]]

\* _append_fila without the correlative
nueva_fila_no_auto(columnas, fila, auto_numero_col, df) ==
    [j \in DOMAIN columnas |->
        IF columnas[j] \in DOMAIN fila THEN fila[columnas[j]] ELSE ""]

\* _append_fila whose correlative is the number of rows before the new one
nueva_fila_from_zero(columnas, fila, auto_numero_col, df) ==
    [j \in DOMAIN columnas |->
        IF auto_numero_col # None /\ columnas[j] = auto_numero_col
        THEN Str(Len(df))
        ELSE IF columnas[j] \in DOMAIN fila THEN fila[columnas[j]] ELSE ""]

\* _append_fila: the new row "nueva", its cells as astype(str) writes them
nueva_fila(columnas, fila, auto_numero_col, df) ==
    [j \in DOMAIN columnas |->
        IF auto_numero_col # None /\ columnas[j] = auto_numero_col
        THEN Str(Len(df) + 1)
        ELSE IF columnas[j] \in DOMAIN fila THEN fila[columnas[j]] ELSE ""]

\* _escribir_df that writes the header and forgets the rows
escribir_values_header_only(columnas, df) == <<columnas>>

\* _escribir_df: values = [df.columns.tolist()] + df.astype(str).values.tolist()
escribir_values(columnas, df) == <<columnas>> \o df

\* ---- strings held in cells, character by character ----
Chars(s) == [i \in 1..Len(s) |-> SubSeq(s, i, i)]
RECURSIVE Join(_)
Join(cs) == IF cs = <<>> THEN "" ELSE Head(cs) \o Join(Tail(cs))

\* str.strip()
str_strip(s) == Join(strip(Chars(s)))

LowerCase == "abcdefghijklmnopqrstuvwxyzñáéíóú"
UpperCase == "ABCDEFGHIJKLMNOPQRSTUVWXYZÑÁÉÍÓÚ"
upper_char(c) ==
    IF \E i \in 1..Len(LowerCase) : SubSeq(LowerCase, i, i) = c
    THEN LET i == CHOOSE i \in 1..Len(LowerCase) : SubSeq(LowerCase, i, i) = c
         IN  SubSeq(UpperCase, i, i)
    ELSE c
\* str.upper()
str_upper(s) == Join([i \in 1..Len(s) |-> upper_char(SubSeq(s, i, i))])

\* to_upper(s): (s or "").strip().upper()
to_upper(s) == str_upper(str_strip(s))

\* int() of a run of digits
RECURSIVE DigitsValue(_)
DigitsValue(cs) ==
    IF cs = <<>> THEN 0
    ELSE 10 * DigitsValue(SubSeq(cs, 1, Len(cs) - 1))
            + ((CHOOSE d \in 1..10 : Digit[d] = cs[Len(cs)]) - 1)

\* float(txt) of a decimal literal (sign, digits, at most one point) or of
\* nan / inf / infinity in any case: whether it parses, whether it is finite,
\* the whole part of its magnitude, whether a fraction remains
float(cs) ==
    LET body == IF cs # <<>> /\ cs[1] \in {"-", "+"} THEN Tail(cs) ELSE cs
        word == Join([i \in DOMAIN body |-> upper_char(body[i])])
        special == word \in {"NAN", "INF", "INFINITY"}
        dots == {i \in DOMAIN body : body[i] = "."}
        k == IF dots = {} THEN Len(body) + 1
             ELSE CHOOSE i \in dots : \A j \in dots : i <= j
        ip == SubSeq(body, 1, k - 1)
        fp == SubSeq(body, k + 1, Len(body))
        ok == /\ Cardinality(dots) <= 1
              /\ \A i \in DOMAIN ip : ip[i] \in DigitChars
              /\ \A i \in DOMAIN fp : fp[i] \in DigitChars
              /\ Len(ip) + Len(fp) > 0
    IN  [ok |-> ok \/ special,
         finite |-> ok,
         whole |-> IF ok THEN DigitsValue(ip) ELSE 0,
         frac |-> ok /\ \E i \in DOMAIN fp : fp[i] # "0"]

\* -lim <= x <= lim: false for nan and for the infinities
within(x, lim) == x.finite /\ (x.whole < lim \/ (x.whole = lim /\ ~x.frac))

\* _coordenadas_validas accepting any latitude
coordenadas_validas_any_lat(val) ==
    LET raw == strip(Chars(val))
        commas == {i \in DOMAIN raw : raw[i] = ","}
    IN  IF raw = <<>> \/ commas = {} THEN FALSE
        ELSE LET k == CHOOSE i \in commas : \A j \in commas : i <= j
                 lat == float(strip(SubSeq(raw, 1, k - 1)))
                 lon == float(strip(SubSeq(raw, k + 1, Len(raw))))
             IN  lat.ok /\ lon.ok /\ within(lon, 180)

\* _coordenadas_validas
coordenadas_validas(val) ==
    LET raw == strip(Chars(val))
        commas == {i \in DOMAIN raw : raw[i] = ","}
    IN  IF raw = <<>> \/ commas = {} THEN FALSE
        ELSE LET k == CHOOSE i \in commas : \A j \in commas : i <= j
                 lat == float(strip(SubSeq(raw, 1, k - 1)))
                 lon == float(strip(SubSeq(raw, k + 1, Len(raw))))
             IN  lat.ok /\ lon.ok /\ within(lat, 90) /\ within(lon, 180)

\* ---- update by key ----
UpdateOps == {"actualizar_estado_documento", "actualizar_evaluacion_con_resolucion",
              "actualizar_autorizacion_resolucion_y_cert"}

\* the column of the mask and the keyword compared with it
KeyCol(op) ==
    CASE op = "actualizar_estado_documento" -> "N° DE DOCUMENTO SIMPLE"
      [] op = "actualizar_evaluacion_con_resolucion" -> "N° DE EVALUACIÓN"
      [] OTHER -> "N° DE EVALUACION"

KeyKeyword(op) ==
    CASE op = "actualizar_estado_documento" -> "num_documento_simple"
      [] op = "actualizar_evaluacion_con_resolucion" -> "cod_evaluacion"
      [] OTHER -> "num_eval"

\* df.loc[mask, column] = keyword: <<column, keyword>>
actualizar_estado_documento_cols == << <<"ESTADO", "nuevo_estado">> >>

actualizar_evaluacion_con_resolucion_cols ==
    << <<"N° DE RESOLUCIÓN", "cod_resolucion">>,
       <<"FECHA DE RESOLUCIÓN", "fecha_resolucion">>,
       <<"N° DE AUTORIZACIÓN", "num_autorizacion">>,
       <<"FECHA DE AUTORIZACION", "fecha_autorizacion">> >>

actualizar_autorizacion_resolucion_y_cert_cols ==
    << <<"CERTIFICADO ANTERIOR", "certificado_anterior">>,
       <<"FECHA EMITIDA CERTIFICADO ANTERIOR", "fecha_emitida_cert_anterior">>,
       <<"FECHA DE CADUCIDAD CERTIFICADO ANTERIOR", "fecha_caducidad_cert_anterior">>,
       <<"N° DE RESOLUCIÓN", "num_resolucion">>,
       <<"FECHA RESOLUCIÓN", "fecha_resolucion">>,
       <<"N° DE CERTIFICADO", "num_certificado">>,
       <<"FECHA EMITIDA CERTIFICADO", "fecha_emitida_cert">>,
       <<"VIGENCIA DE AUTORIZACIÓN", "vigencia_autorizacion">> >>

TargetsOf(op) ==
    CASE op = "actualizar_estado_documento" -> actualizar_estado_documento_cols
      [] op = "actualizar_evaluacion_con_resolucion" ->
            actualizar_evaluacion_con_resolucion_cols
      [] OTHER -> actualizar_autorizacion_resolucion_y_cert_cols

IndexOf(columnas, col) == CHOOSE j \in DOMAIN columnas : columnas[j] = col

\* mask: the documents compare trimmed strings, the other two the strings
mask(op, cell, key) ==
    IF op = "actualizar_estado_documento"
    THEN str_strip(cell) = str_strip(key)
    ELSE cell = key

\* the value assigned to the target column of keyword p
Assigned(op, kw, p) ==
    IF op = "actualizar_estado_documento" THEN str_upper(kw[p]) ELSE kw[p]

\* the data frame after df.loc[mask, ...] = ...
actualizar_all_rows(op, kw, df) ==
    LET columnas == ColumnasOf(op)
        T == Range(TargetsOf(op))
    IN  [i \in DOMAIN df |->
            [j \in DOMAIN columnas |->
                IF \E t \in T : t[1] = columnas[j]
                THEN Assigned(op, kw, (CHOOSE t \in T : t[1] = columnas[j])[2])
                ELSE df[i][j]]]

actualizar(op, kw, df) ==
    LET columnas == ColumnasOf(op)
        k == IndexOf(columnas, KeyCol(op))
        T == Range(TargetsOf(op))
        hit(i) == mask(op, df[i][k], kw[KeyKeyword(op)])
    IN  [i \in DOMAIN df |->
            IF hit(i)
            THEN [j \in DOMAIN columnas |->
                    IF \E t \in T : t[1] = columnas[j]
                    THEN Assigned(op, kw, (CHOOSE t \in T : t[1] = columnas[j])[2])
                    ELSE df[i][j]]
            ELSE df[i]]

\* mask.any()
mask_any(op, kw, df) ==
    \E i \in DOMAIN df :
        mask(op, df[i][IndexOf(ColumnasOf(op), KeyCol(op))], kw[KeyKeyword(op)])

\* keyword arguments of an update: the key and a value for every target
UpdateKwargs(op, key, tag) ==
    [p \in {KeyKeyword(op)} \cup {t[2] : t \in Range(TargetsOf(op))} |->
        IF p = KeyKeyword(op) THEN key
        ELSE IF p = "nuevo_estado" THEN tag
        ELSE tag \o ":" \o p]

\* ---- the certificate row ----
\* guardar_certificado_en_bd: nueva_fila of the certificate of applicant who
CertFila(who) ==
    [c \in Range(COLUMNAS_OFICIALES) |-> IF c = "ANCHO" THEN "" ELSE who \o ":" \o c]


DataRows(g) == IF Len(g) <= 1 THEN <<>> ELSE SubSeq(g, 2, Len(g))

\* ---- sample submissions ----
Users == {"u1", "u2"}
Persons == {"A", "B"}

\* keyword arguments of a call: the required ones, and all the optional ones
\* or none of them; each value names its person and its keyword
Kwargs(op, who, full) ==
    [p \in {t[2] : t \in {x \in Range(FilaOf(op)) : full \/ x[3] = Required}} |->
        IF p = "estado" THEN "PENDIENTE" ELSE who \o ":" \o p]

\* keys and values tried by the updates: the key a sample applicant's row
\* holds (the append wrappers name the key keyword alike), as stored or padded
UpdateKeys(op) ==
    {who \o ":" \o KeyKeyword(op) : who \in Persons}
        \cup {" A:" \o KeyKeyword(op) \o " "}
UpdateTags == {"autorizado"}

NoKw == [p \in {} |-> ""]
\* err: the step at which a sheet call raised out of the operation;
\* caught: the step at which a sheet call raised and the operation went on
NoCall == [pc |-> "idle", op |-> "", kw |-> NoKw, df |-> <<>>, before |-> <<>>,
           err |-> "", caught |-> "", ret |-> <<>>]

\* st.session_state of a page: eval_ctx (NoCtx while there is none), the
\* handler whose store calls are running (rest: the calls it still makes), the
\* message the page shows; the autocomplete callback running (cb, arg), the
\* applicant-name field (name), what the last callback got and made of it
\* (res, nombre); the document generation running (gen), the files under
\* salidas/, whether a download is offered, whether the template of the
\* generation was rendered, and the call at which the generation failed;
\* the advertisement page's anuncio_eval_ctx, anuncio_ultimo_cert_eval and
\* anuncio_ultimo_cert_meta, and how consultar_dni ended in the run (consulta)
NoCtx == [p \in {} |-> ""]
NoUi == [eval_ctx |-> NoCtx, handler |-> "", rest |-> <<>>, msg |-> "",
         cb |-> "", arg |-> <<>>, name |-> "", res |-> <<>>, nombre |-> "",
         gen |-> [page |-> "", i |-> 0, exists |-> FALSE], salidas |-> {},
         download |-> FALSE, rendered |-> FALSE, fail |-> "",
         partes |-> <<>>, valid |-> "",
         texto |-> <<>>, limpio |-> <<>>,
         falt |-> FALSE, ds |-> "",
         anuncio_eval_ctx |-> NoCtx, anuncio_ultimo_cert_eval |-> NoCtx,
         anuncio_ultimo_cert_meta |-> NoCtx, consulta |-> ""]

IdleStore ==
    /\ store = [t \in Tabs |-> <<>>]
    /\ call = [u \in Users |-> NoCall]
    /\ wsCache = FALSE
    /\ ui = [u \in Users |-> NoUi]

(***************************************************************************)
(* codart.py: HTTP vocabulary                                              *)
(***************************************************************************)
BASE_URL == <<"consultas">>

\* "12345678", " 12345678 ", "1234567", "1234567x", "20538856674"
Dni8 == <<"1", "2", "3", "4", "5", "6", "7", "8">>
Ruc11 == <<"2", "0", "5", "3", "8", "8", "5", "6", "6", "7", "4">>
LookupIds == { Dni8, <<" ">> \o Dni8 \o <<" ">>, SubSeq(Dni8, 1, 7),
               SubSeq(Dni8, 1, 7) \o <<"x">>, Ruc11 }
Functions == {"dni", "ruc"}

Service(f) == IF f = "dni" THEN "reniec" ELSE "sunat"
IdType(f) == IF f = "dni" THEN <<"d", "n", "i">> ELSE <<"r", "u", "c">>

\* url_a = f"{BASE_URL}/reniec/dni/{dni_ok}"
url_a(f, idok) == [service |-> Service(f), idtype |-> IdType(f), last |-> idok]
\* url_b = f"{BASE_URL}/reniec/dni/dni"
url_b(f, idok) == [service |-> Service(f), idtype |-> IdType(f), last |-> IdType(f)]
\* params_b = {"dni": dni_ok}; None and {} carry no parameter
NoParams == [name |-> <<>>, value |-> <<>>]
params_b(f, idok) == [name |-> IdType(f), value |-> idok]

\* the record a successful envelope carries in "result"; {} is EmptyRec
EmptyRec == [ep |-> "", fn |-> "", id |-> <<>>]
Rec(e, f, idok) == [ep |-> e, fn |-> f, id |-> idok]

\* upstream message texts; the last one contains "HTTP 404"
MsgTexts == {"", "no encontrado", "HTTP 404 Not Found"}
MsgMentions(m) == m = "HTTP 404 Not Found"

\* response bodies as text: [len, mark]; mark = offset at which the first
\* occurrence of "HTTP 404" / "HTTP 406" ends, 0 when there is none
PlainText == [len |-> 12, mark |-> 0]
EarlyText == [len |-> 40, mark |-> 20]
MidText == [len |-> 400, mark |-> 250]

\* text[:n]
Trunc(t, n) == [len |-> IF t.len <= n THEN t.len ELSE n,
                mark |-> IF t.mark <= n THEN t.mark ELSE 0]
TextMentions(t) == t.mark > 0

\* a body: its text, and what resp.json() gives
\*   kind "text": not JSON;  "list": JSON, not an object;  "dict": an object
TextBody(t) == [kind |-> "text", text |-> t, success |-> "None", message |-> "",
                error |-> "", result |-> EmptyRec]
ListBody == [kind |-> "list", text |-> PlainText, success |-> "None",
             message |-> "", error |-> "", result |-> EmptyRec]
DictBody(s, m, e, r) ==
    [kind |-> "dict",
     text |-> IF MsgMentions(m) \/ MsgMentions(e) THEN EarlyText ELSE PlainText,
     success |-> s, message |-> m, error |-> e, result |-> r]
NoBody == TextBody([len |-> 0, mark |-> 0])
NoResp == [status |-> 0, body |-> NoBody]

\* the value of "success": True, False, absent, or the integer 1
SuccessVals == {"True", "False", "None", "int1"}

ErrStatuses == {403, 404, 406, 415, 500}

\* answers with status >= 400: the code reads their status and text only
ErrResponses ==
    { r \in [status : ErrStatuses, body : {TextBody(PlainText), TextBody(EarlyText),
                                           TextBody(MidText)}] :
        \/ r.body.text = PlainText /\ r.status # 415
        \/ r.body.text = EarlyText /\ r.status = 406
        \/ r.body.text = MidText /\ r.status \in {415, 500} }

\* answers with status 200 to a request about function f, identifier idok, at e:
\* a success envelope with or without a result, every failure envelope, a JSON
\* list, and two texts that are not JSON
OkResponses(e, f, idok) ==
    [status : {200},
     body : { DictBody("True", "", "", r) : r \in {Rec(e, f, idok), EmptyRec} }
            \cup { DictBody(s, m, er, EmptyRec) :
                     s \in SuccessVals \ {"True"}, m \in MsgTexts, er \in {"", "limit"} }
            \cup {ListBody, TextBody(PlainText), TextBody(EarlyText)}]

\* a timeout or connection error: requests raises, there is no response
Transport == [status |-> -1, body |-> NoBody]

SteadyResponses(e, f, idok) ==
    { [status |-> 200, body |-> DictBody("True", "", "", Rec(e, f, idok))],
      [status |-> 404, body |-> TextBody(PlainText)],
      [status |-> 406, body |-> TextBody(PlainText)] }

\* what the upstream may answer to one request
Answers(e, f, idok) ==
    IF upstream = "any"
    THEN ErrResponses \cup OkResponses(e, f, idok) \cup {Transport}
    ELSE SteadyResponses(e, f, idok)

(***************************************************************************)
(* codart.py: CodartAPIError messages                                      *)
(***************************************************************************)
NoText == [len |-> 0, mark |-> 0]
NoExc == [kind |-> "none", status |-> 0, post |-> 0, body |-> NoText, text |-> ""]
\* "Falta CODART_TOKEN. ..."
ExcToken == [NoExc EXCEPT !.kind = "token"]
\* f"HTTP {resp.status_code}: {(resp.text or '')[:300]}"
ExcHttp(r) == [NoExc EXCEPT !.kind = "http", !.status = r.status,
                            !.body = Trunc(r.body.text, 300)]
\* "Respuesta inesperada (no es dict)."
ExcNoDict == [NoExc EXCEPT !.kind = "nodict"]
\* f"CODART respondió error: {msg}"
ExcUpstream(m) == [NoExc EXCEPT !.kind = "upstream", !.text = m]
ExcWaf_body300(r, r2) == [NoExc EXCEPT !.kind = "waf", !.status = r.status,
                                      !.post = r2.status,
                                      !.body = Trunc(r.body.text, 300)]

\* f"Bloqueado por servidor/WAF. GET={resp.status_code} POST={resp2.status_code}. "
\* f"GET body: {(resp.text or '')[:200]}"
ExcWaf(r, r2) == [NoExc EXCEPT !.kind = "waf", !.status = r.status,
                               !.post = r2.status, !.body = Trunc(r.body.text, 200)]

MsgHas406_only(e) ==
    CASE e.kind = "http" -> e.status = 406
      [] OTHER -> FALSE

\* "HTTP 404" in msg or "HTTP 406" in msg
MsgHas404or406(e) ==
    CASE e.kind = "http" -> e.status \in {404, 406} \/ TextMentions(e.body)
      [] e.kind = "waf" -> TextMentions(e.body)
      [] e.kind = "upstream" -> MsgMentions(e.text)
      [] OTHER -> FALSE

(***************************************************************************)
(* codart.py: _get_json.parse                                              *)
(***************************************************************************)
\* data.get("message") or data.get("error") or "success=false"
UpstreamMsg(data) ==
    IF data.message # "" THEN data.message
    ELSE IF data.error # "" THEN data.error
    ELSE "success=false"

parse_truthy(r) ==
    IF r.body.kind = "text" THEN [ok |-> FALSE, exc |-> ExcHttp(r), data |-> NoBody]
    ELSE IF r.body.kind # "dict" THEN [ok |-> FALSE, exc |-> ExcNoDict, data |-> NoBody]
    ELSE IF r.body.success \notin {"True", "int1"}
    THEN [ok |-> FALSE, exc |-> ExcUpstream(UpstreamMsg(r.body)), data |-> NoBody]
    ELSE [ok |-> TRUE, exc |-> NoExc, data |-> r.body]

parse(r) ==
    IF r.body.kind = "text" THEN [ok |-> FALSE, exc |-> ExcHttp(r), data |-> NoBody]
    ELSE IF r.body.kind # "dict" THEN [ok |-> FALSE, exc |-> ExcNoDict, data |-> NoBody]
    ELSE IF r.body.success # "True"
    THEN [ok |-> FALSE, exc |-> ExcUpstream(UpstreamMsg(r.body)), data |-> NoBody]
    ELSE [ok |-> TRUE, exc |-> NoExc, data |-> r.body]

\* data.get("result", {}) or {}
ResultOf(data) == data.result

IsWafStatus_no403(s) == s \in {406, 415}

\* resp.status_code in (406, 415, 403)
IsWafStatus(s) == s \in {406, 415, 403}

(***************************************************************************)
(* codart.py: st.cache_data(ttl=60 * 60 * 24)                              *)
(***************************************************************************)
TTL == 60 * 60 * 24
HalfTTL == TTL \div 2

CacheLive_noexpiry(c, key, t) == key \in DOMAIN c

\* an entry is served while its age is below the ttl
CacheLive(c, key, t) == key \in DOMAIN c /\ t - c[key].at < TTL

Validar(f, a) == IF f = "dni" THEN validar_dni(a) ELSE validar_ruc(a)

(***************************************************************************)
(* codart.py: consultar_dni / consultar_ruc, one step per outbound request *)
(***************************************************************************)
NoPrim == [first |-> 0, all406 |-> TRUE, n |-> 0]
NoOutcome == [kind |-> "none", val |-> EmptyRec, err |-> NoExc, cached |-> FALSE]
NoPrev == [fn |-> "", arg |-> <<>>, at |-> 0, nreq |-> 0, kind |-> "none",
           val |-> EmptyRec]

otherThanLookup == <<validVars, storeVars>>

Url == IF ep = "A" THEN url_a(fn, Validar(fn, arg).val)
       ELSE url_b(fn, Validar(fn, arg).val)
Params == IF ep = "A" THEN NoParams ELSE params_b(fn, Validar(fn, arg).val)

Request(m, u, p, j) == [method |-> m, url |-> u, params |-> p, json |-> j, ep |-> ep]

\* consultar_* returns data.get("result", {}) or {}; st.cache_data stores it
Deliver(data) ==
    /\ outcome' = [kind |-> "return", val |-> ResultOf(data), err |-> NoExc,
                   cached |-> FALSE]
    /\ cache' = (<<fn, arg>> :> [val |-> ResultOf(data), at |-> now]) @@ cache
    /\ pc' = "done"
    /\ exc' = NoExc

\* a CodartAPIError whose call stores an empty record in the cache
Raise_cached(e) ==
    /\ exc' = e
    /\ cache' = (<<fn, arg>> :> [val |-> EmptyRec, at |-> now]) @@ cache
    /\ IF ep = "A"
       THEN pc' = "except" /\ outcome' = outcome
       ELSE /\ pc' = "done"
            /\ outcome' = [kind |-> "CodartAPIError", val |-> EmptyRec, err |-> e,
                           cached |-> FALSE]

\* a CodartAPIError that is handled by the except clause wherever it is raised
Raise_handled_everywhere(e) ==
    /\ exc' = e
    /\ cache' = cache
    /\ pc' = "except" /\ outcome' = outcome

\* raise CodartAPIError(e) inside _get_json: url_a is queried inside the try,
\* url_b inside the except clause
Raise(e) ==
    /\ exc' = e
    /\ cache' = cache
    /\ IF ep = "A"
       THEN pc' = "except" /\ outcome' = outcome
       ELSE /\ pc' = "done"
            /\ outcome' = [kind |-> "CodartAPIError", val |-> EmptyRec, err |-> e,
                           cached |-> FALSE]

\* requests raises (timeout, connection error): no except clause matches
TransportFail ==
    /\ pc' = "done"
    /\ outcome' = [kind |-> "RequestException", val |-> EmptyRec, err |-> NoExc,
                   cached |-> FALSE]
    /\ UNCHANGED <<cache, exc>>

ParseAndFinish(r) ==
    LET p == parse(r) IN IF p.ok THEN Deliver(p.data) ELSE Raise(p.exc)

NotePrimary(r) ==
    prim' = IF ep = "A"
            THEN [first |-> IF prim.n = 0 THEN r.status ELSE prim.first,
                  all406 |-> prim.all406 /\ r.status = 406,
                  n |-> prim.n + 1]
            ELSE prim

\* the cached wrapper, then validar_*, up to the first request
Consultar(f, a) ==
    /\ pc = "idle"
    /\ callsLeft > 0
    /\ fn' = f /\ arg' = a
    /\ IF CacheLive(cache, <<f, a>>, now)
       THEN /\ outcome' = [kind |-> "return", val |-> cache[<<f, a>>].val,
                           err |-> NoExc, cached |-> TRUE]
            /\ pc' = "done"
       ELSE IF ~Validar(f, a).ok
       THEN /\ outcome' = [kind |-> "ValueError", val |-> EmptyRec, err |-> NoExc,
                           cached |-> FALSE]
            /\ pc' = "done"
       ELSE /\ outcome' = NoOutcome
            /\ pc' = "get1"
    /\ ep' = "A"
    /\ UNCHANGED <<token, upstream, callsLeft, now, cache, resp, resp2, resp3, exc,
                   sent, prim, prev>>
    /\ UNCHANGED otherThanLookup

\* _get_json: _get_token(), then "Intento 1: GET"
Get1(r) ==
    /\ pc = "get1"
    /\ IF ~token
       THEN /\ Raise(ExcToken)
            /\ UNCHANGED <<sent, resp, prim>>
       ELSE /\ sent' = Append(sent, Request("GET", Url, Params, NoParams))
            /\ IF r = Transport
               THEN TransportFail /\ UNCHANGED <<resp, prim>>
               ELSE /\ resp' = r
                    /\ NotePrimary(r)
                    /\ IF IsWafStatus(r.status)
                       THEN pc' = "post" /\ UNCHANGED <<exc, outcome, cache>>
                       ELSE IF r.status >= 400
                       THEN Raise(ExcHttp(r))
                       ELSE ParseAndFinish(r)
    /\ UNCHANGED <<token, upstream, callsLeft, now, fn, arg, ep, resp2, resp3, prev>>
    /\ UNCHANGED otherThanLookup

\* "Intento 2: POST con JSON": json=(params or {})
Post(r) ==
    /\ pc = "post"
    /\ sent' = Append(sent, Request("POST", Url, NoParams, Params))
    /\ IF r = Transport
       THEN TransportFail /\ UNCHANGED <<resp2, prim>>
       ELSE /\ resp2' = r
            /\ NotePrimary(r)
            /\ IF r.status < 400
               THEN ParseAndFinish(r)
               ELSE pc' = "get3" /\ UNCHANGED <<exc, outcome, cache>>
    /\ UNCHANGED <<token, upstream, callsLeft, now, fn, arg, ep, resp, resp3, prev>>
    /\ UNCHANGED otherThanLookup

\* "Intento 3: GET sin params", then the WAF error
Get3(r) ==
    /\ pc = "get3"
    /\ sent' = Append(sent, Request("GET", Url, NoParams, NoParams))
    /\ IF r = Transport
       THEN TransportFail /\ UNCHANGED <<resp3, prim>>
       ELSE /\ resp3' = r
            /\ NotePrimary(r)
            /\ IF r.status < 400
               THEN ParseAndFinish(r)
               ELSE Raise(ExcWaf(resp, resp2))
    /\ UNCHANGED <<token, upstream, callsLeft, now, fn, arg, ep, resp, resp2, prev>>
    /\ UNCHANGED otherThanLookup

\* except CodartAPIError as e: fall back to url_b, or re-raise
Except ==
    /\ pc = "except"
    /\ IF MsgHas404or406(exc)
       THEN /\ ep' = "B"
            /\ pc' = "get1"
            /\ resp' = NoResp /\ resp2' = NoResp /\ resp3' = NoResp
            /\ exc' = NoExc
            /\ outcome' = outcome
       ELSE /\ pc' = "done"
            /\ outcome' = [kind |-> "CodartAPIError", val |-> EmptyRec, err |-> exc,
                           cached |-> FALSE]
            /\ UNCHANGED <<ep, resp, resp2, resp3, exc>>
    /\ UNCHANGED <<token, upstream, callsLeft, now, cache, fn, arg, sent, prim, prev>>
    /\ UNCHANGED otherThanLookup

\* the caller takes the result or the exception
Finish ==
    /\ pc = "done"
    /\ pc' = "idle"
    /\ callsLeft' = callsLeft - 1
    /\ prev' = [fn |-> fn, arg |-> arg, at |-> now, nreq |-> Len(sent),
                kind |-> outcome.kind, val |-> outcome.val]
    /\ fn' = "" /\ arg' = <<>> /\ ep' = "A"
    /\ resp' = NoResp /\ resp2' = NoResp /\ resp3' = NoResp
    /\ exc' = NoExc /\ outcome' = NoOutcome /\ sent' = <<>> /\ prim' = NoPrim
    /\ UNCHANGED <<token, upstream, now, cache>>
    /\ UNCHANGED otherThanLookup

\* time passes between the user's actions; the clock starts at the first lookup
Tick ==
    /\ pc = "idle"
    /\ prev # NoPrev
    /\ now < MaxTicks * HalfTTL
    /\ now' = now + HalfTTL
    /\ UNCHANGED <<token, upstream, callsLeft, cache, pc, fn, arg, ep, resp, resp2,
                   resp3, exc, outcome, sent, prim, prev>>
    /\ UNCHANGED otherThanLookup

IdleLookup ==
    /\ now = 0
    /\ cache = << >>
    /\ pc = "idle"
    /\ fn = "" /\ arg = <<>> /\ ep = "A"
    /\ resp = NoResp /\ resp2 = NoResp /\ resp3 = NoResp
    /\ exc = NoExc /\ outcome = NoOutcome /\ sent = <<>> /\ prim = NoPrim
    /\ prev = NoPrev

NoVerdict == [done |-> FALSE, dni |-> FALSE, ruc |-> FALSE, doc |-> FALSE]
IdleValid == idstr = <<>> /\ verdict = NoVerdict

NextLookup ==
    \/ \E f \in Functions, a \in LookupIds : Consultar(f, a)
    \/ \E r \in Answers(ep, fn, Validar(fn, arg).val) : Get1(r)
    \/ \E r \in Answers(ep, fn, Validar(fn, arg).val) : Post(r)
    \/ \E r \in Answers(ep, fn, Validar(fn, arg).val) : Get3(r)
    \/ Except
    \/ Finish
    \/ Tick

vars == <<lookupVars, validVars, storeVars>>

\* one lookup against an upstream that may answer anything
InitLookup ==
    /\ token \in BOOLEAN
    /\ upstream = "any"
    /\ callsLeft = 1
    /\ IdleLookup
    /\ IdleValid
    /\ IdleStore

SpecLookup == InitLookup /\ [][NextLookup]_vars

\* a session of lookups against an upstream with few answers
InitCache ==
    /\ token = TRUE
    /\ upstream = "steady"
    /\ callsLeft = MaxCalls
    /\ IdleLookup
    /\ IdleValid
    /\ IdleStore

SpecCache == InitCache /\ [][NextLookup]_vars

(***************************************************************************)
(* Identifier validators applied to one identifier                         *)
(***************************************************************************)
\* a run of n digits whose p-th character (p > 0) is c instead
Core(n, p, c) == [i \in 1..n |-> IF i = p THEN c ELSE Dni8[((i - 1) % 8) + 1]]

IdInputs ==
    { Rep(" ", l) \o Core(n, p, c) \o Rep(" ", t) :
        l \in 0..1, t \in 0..1, n \in 0..MaxDigits, p \in 0..MaxDigits, c \in {"x", " "} }

Validate ==
    /\ ~verdict.done
    /\ verdict' = [done |-> TRUE, dni |-> validar_dni(idstr).ok,
                   ruc |-> validar_ruc(idstr).ok, doc |-> doc_identidad_valido(idstr)]
    /\ UNCHANGED idstr
    /\ UNCHANGED <<lookupVars, storeVars>>

InitValid ==
    /\ idstr \in IdInputs
    /\ verdict = NoVerdict
    /\ token = TRUE /\ upstream = "steady" /\ callsLeft = 0
    /\ IdleLookup
    /\ IdleStore

SpecValid == InitValid /\ [][Validate]_vars

(***************************************************************************)
(* sheets_comercio.py: _append_fila, one step per call of the sheet API    *)
(***************************************************************************)
otherThanStore == <<lookupVars, validVars, wsCache, ui>>

TotalRows ==
    Len(DataRows(store[EVAL_SHEET_NAME])) + Len(DataRows(store[AUTO_SHEET_NAME]))
        + Len(DataRows(store[DOCS_SHEET_NAME])) + Len(DataRows(store[SHEET_NAME]))

\* no other session has a store call running
Sequential(u) == \A v \in Users \ {u} : call[v].pc = "idle"

\* the form handler calls append_documento / append_evaluacion /
\* append_autorizacion with the keyword arguments kw
Submit(u, op, kw) ==
    /\ call[u].pc = "idle"
    /\ TotalRows < MaxRows
    /\ call' = [call EXCEPT ![u] = [NoCall EXCEPT !.pc = "gw_leer", !.op = op,
                                                  !.kw = kw,
                                                  !.before = store[SheetOf(op)]]]
    /\ UNCHANGED store
    /\ UNCHANGED otherThanStore

\* _get_worksheet: values = ws.get_all_values()
GetWorksheet(u) ==
    /\ call[u].pc \in {"gw_leer", "gw_escribir"}
    /\ LET values == get_all_values(store[SheetOf(call[u].op)])
           leer == call[u].pc = "gw_leer"
       IN  call' = [call EXCEPT ![u].pc =
                       IF values = <<>>
                       THEN (IF leer THEN "hdr_leer" ELSE "hdr_escribir")
                       ELSE (IF leer THEN "leer" ELSE "clear")]
    /\ UNCHANGED store
    /\ UNCHANGED otherThanStore

\* _get_worksheet: if not values: ws.update("A1", [columnas])
WriteHeader(u) ==
    /\ call[u].pc \in {"hdr_leer", "hdr_escribir"}
    /\ LET t == SheetOf(call[u].op)
       IN  store' = [store EXCEPT ![t] = ws_update(store[t], <<ColumnasOf(call[u].op)>>)]
    /\ call' = [call EXCEPT ![u].pc = IF call[u].pc = "hdr_leer" THEN "leer"
                                      ELSE "clear"]
    /\ UNCHANGED otherThanStore

\* _leer_df reads the tab; _append_fila builds "nueva" and concatenates it
LeerDf(u) ==
    /\ call[u].pc = "leer"
    /\ call[u].op \in AppendOps
    /\ LET op == call[u].op
           columnas == ColumnasOf(op)
           df == leer_df(get_all_values(store[SheetOf(op)]), columnas)
           nueva == nueva_fila(columnas, Fila(op, call[u].kw), AutoNumeroCol(op), df)
       IN  call' = [call EXCEPT ![u].df = Append(df, nueva), ![u].pc = "gw_escribir"]
    /\ UNCHANGED store
    /\ UNCHANGED otherThanStore

\* _escribir_df: ws.clear()
Clear(u) ==
    /\ call[u].pc = "clear"
    /\ LET t == SheetOf(call[u].op)
       IN  store' = [store EXCEPT ![t] = ws_clear(store[t])]
    /\ call' = [call EXCEPT ![u].pc = "update"]
    /\ UNCHANGED otherThanStore

\* _escribir_df: ws.update("A1", values)
Update(u) ==
    /\ call[u].pc = "update"
    /\ LET op == call[u].op
           t == SheetOf(op)
       IN  store' = [store EXCEPT ![t] =
                        ws_update(store[t], escribir_values(ColumnasOf(op), call[u].df))]
    /\ call' = [call EXCEPT ![u].pc = "ok"]
    /\ UNCHANGED otherThanStore

\* a call of the sheet API raises (quota, network): the exception leaves
\* _append_fila and reaches the form handler
StoreError(u) ==
    /\ call[u].pc \in {"gw_leer", "hdr_leer", "leer", "gw_escribir", "hdr_escribir",
                       "clear", "update", "c_gw_escribir", "c_hdr_escribir"}
    /\ call' = [call EXCEPT ![u].pc = "failed", ![u].err = call[u].pc]
    /\ UNCHANGED store
    /\ UNCHANGED otherThanStore

\* the form handler shows st.success / st.error
Ack(u) ==
    /\ call[u].pc \in {"ok", "failed"}
    /\ call' = [call EXCEPT ![u] = NoCall]
    /\ UNCHANGED store
    /\ UNCHANGED otherThanStore

\* submissions one after the other
NextStore ==
    \/ \E u \in Users, op \in AppendOps, who \in Persons, full \in BOOLEAN :
          Sequential(u) /\ Submit(u, op, Kwargs(op, who, full))
    \/ \E u \in Users : GetWorksheet(u)
    \/ \E u \in Users : WriteHeader(u)
    \/ \E u \in Users : LeerDf(u)
    \/ \E u \in Users : Clear(u)
    \/ \E u \in Users : Update(u)
    \/ \E u \in Users : StoreError(u)
    \/ \E u \in Users : Ack(u)

InitStore ==
    /\ IdleStore
    /\ token = TRUE /\ upstream = "steady" /\ callsLeft = 0
    /\ IdleLookup
    /\ IdleValid

SpecStore == InitStore /\ [][NextStore]_vars

(***************************************************************************)
(* sheets_comercio.py: update by key; app_anuncios.py: the certificate     *)
(***************************************************************************)
\* a caller runs actualizar_estado_documento / actualizar_evaluacion_con_resolucion
\* / actualizar_autorizacion_resolucion_y_cert with the keyword arguments kw
SubmitUpdate(u, op, kw) ==
    /\ call[u].pc = "idle"
    /\ call' = [call EXCEPT ![u] = [NoCall EXCEPT !.pc = "gw_leer", !.op = op,
                                                  !.kw = kw,
                                                  !.before = store[SheetOf(op)]]]
    /\ UNCHANGED store
    /\ UNCHANGED otherThanStore

\* df = leer_*(); if df.empty: return; if not mask.any(): return; df.loc[...]
LeerUpdate(u) ==
    /\ call[u].pc = "leer"
    /\ call[u].op \in UpdateOps
    /\ LET op == call[u].op
           df == leer_df(get_all_values(store[SheetOf(op)]), ColumnasOf(op))
       IN  IF df = <<>> \/ ~mask_any(op, call[u].kw, df)
           THEN call' = [call EXCEPT ![u].df = df, ![u].pc = "ok"]
           ELSE call' = [call EXCEPT ![u].df = actualizar(op, call[u].kw, df),
                                     ![u].pc = "gw_escribir"]
    /\ UNCHANGED store
    /\ UNCHANGED otherThanStore

\* "Guardar ultimo certificado": guardar_certificado_en_bd builds nueva_fila
\* and calls leer_bd_certificados; get_worksheet is cached by st.cache_resource
SubmitCert(u, who) ==
    /\ call[u].pc = "idle"
    /\ TotalRows < MaxRows
    /\ call' = [call EXCEPT ![u] =
                   [NoCall EXCEPT !.pc = IF wsCache THEN "c_leer" ELSE "c_gw_leer",
                                  !.op = "guardar_certificado_en_bd",
                                  !.kw = CertFila(who),
                                  !.before = store[SHEET_NAME]]]
    /\ UNCHANGED <<store, wsCache>>
    /\ UNCHANGED <<lookupVars, validVars, ui>>

\* get_worksheet, not cached yet: values = ws.get_all_values()
CertGetWorksheet(u) ==
    /\ call[u].pc \in {"c_gw_leer", "c_gw_escribir"}
    /\ LET values == get_all_values(store[SHEET_NAME])
           leer == call[u].pc = "c_gw_leer"
       IN  IF values = <<>>
           THEN /\ call' = [call EXCEPT ![u].pc = IF leer THEN "c_hdr_leer"
                                                  ELSE "c_hdr_escribir"]
                /\ UNCHANGED wsCache
           ELSE /\ call' = [call EXCEPT ![u].pc = IF leer THEN "c_leer" ELSE "clear"]
                /\ wsCache' = TRUE
    /\ UNCHANGED store
    /\ UNCHANGED <<lookupVars, validVars, ui>>

\* get_worksheet: ws.update("A1", [COLUMNAS_OFICIALES]); return ws
CertWriteHeader(u) ==
    /\ call[u].pc \in {"c_hdr_leer", "c_hdr_escribir"}
    /\ store' = [store EXCEPT ![SHEET_NAME] =
                    ws_update(store[SHEET_NAME], <<COLUMNAS_OFICIALES>>)]
    /\ call' = [call EXCEPT ![u].pc = IF call[u].pc = "c_hdr_leer" THEN "c_leer"
                                      ELSE "clear"]
    /\ wsCache' = TRUE
    /\ UNCHANGED <<lookupVars, validVars, ui>>

\* leer_bd_certificados: values = ws.get_all_values(); then pd.concat
CertLeer(u) ==
    /\ call[u].pc = "c_leer"
    /\ LET df == leer_df(get_all_values(store[SHEET_NAME]), COLUMNAS_OFICIALES)
           nueva == [j \in DOMAIN COLUMNAS_OFICIALES |-> call[u].kw[COLUMNAS_OFICIALES[j]]]
       IN  call' = [call EXCEPT ![u].df = Append(df, nueva), ![u].pc = "clear"]
    /\ UNCHANGED <<store, wsCache>>
    /\ UNCHANGED <<lookupVars, validVars, ui>>

\* leer_bd_certificados raises: except Exception: df = pd.DataFrame(columns=...)
CertLeerError(u) ==
    /\ call[u].pc \in {"c_gw_leer", "c_hdr_leer", "c_leer"}
    /\ LET nueva == [j \in DOMAIN COLUMNAS_OFICIALES |-> call[u].kw[COLUMNAS_OFICIALES[j]]]
       IN  call' = [call EXCEPT ![u].df = <<nueva>>,
                                ![u].caught = call[u].pc,
                                ![u].pc = IF wsCache THEN "clear" ELSE "c_gw_escribir"]
    /\ UNCHANGED <<store, wsCache>>
    /\ UNCHANGED <<lookupVars, validVars, ui>>

\* the session whose operations run when sessions take turns
Operator == {"u1"}

\* the store's own create and update operations, one after the other, any
\* sheet call of which may raise
NextOps ==
    \/ \E u \in Operator, op \in AppendOps, who \in Persons :
          Submit(u, op, Kwargs(op, who, who = "A"))
    \/ \E u \in Operator : \E key \in UpdateKeys("actualizar_estado_documento"),
                              tag \in UpdateTags :
          SubmitUpdate(u, "actualizar_estado_documento",
                       UpdateKwargs("actualizar_estado_documento", key, tag))
    \/ \E u \in Operator, who \in Persons : SubmitCert(u, who)
    \/ \E u \in Users : GetWorksheet(u)
    \/ \E u \in Users : WriteHeader(u)
    \/ \E u \in Users : LeerDf(u)
    \/ \E u \in Users : LeerUpdate(u)
    \/ \E u \in Users : CertGetWorksheet(u)
    \/ \E u \in Users : CertWriteHeader(u)
    \/ \E u \in Users : CertLeer(u)
    \/ \E u \in Users : CertLeerError(u)
    \/ \E u \in Users : Clear(u)
    \/ \E u \in Users : Update(u)
    \/ \E u \in Users : StoreError(u)
    \/ \E u \in Users : Ack(u)

SpecOps == InitStore /\ [][NextOps]_vars

(***************************************************************************)
(* Properties of the lookup client                                         *)
(***************************************************************************)
IdOk == Validar(fn, arg).val
\* requests of the running call sent to endpoint e
SentTo(e) == SelectSeq(sent, LAMBDA q : q.ep = e)
\* the last response the running _get_json received
LastResp == IF resp3 # NoResp THEN resp3 ELSE IF resp2 # NoResp THEN resp2 ELSE resp
IsSuccessEnvelope(r) ==
    r.status < 400 /\ r.body.kind = "dict" /\ r.body.success = "True"
\* the running _get_json has ended on a response it received
EndedOnResponse ==
    /\ pc \in {"except", "done"}
    /\ outcome.kind \notin {"RequestException", "ValueError"}
    /\ ~outcome.cached
    /\ LastResp # NoResp

\* C1: a valid identifier, the primary endpoint answering 406 to every request
\* made to it and the secondary answering 200 with success=true: the call
\* returns the secondary endpoint's result and raises nothing.
C1_Primary406FallsBack ==
    ( /\ pc = "done"
      /\ prim.n > 0 /\ prim.all406
      /\ prim.n = Len(SentTo("A"))
      /\ (ep = "B" => IsSuccessEnvelope(resp)) )
    => (outcome.kind = "return" /\ ep = "B" /\ outcome.val = resp.body.result)

\* C2: a primary GET answered 404 is followed by a GET of the secondary
\* endpoint with the identifier as query parameter; the secondary's result is
\* returned if it succeeds, and an error reaches the caller only after the
\* secondary has failed too.
C2_Primary404FallsBack ==
    (pc = "done" /\ prim.n > 0 /\ prim.first = 404)
    => /\ ep = "B"
       /\ Len(sent) >= 2
       /\ sent[1] = [method |-> "GET",
                     url |-> [service |-> Service(fn), idtype |-> IdType(fn),
                              last |-> IdOk],
                     params |-> NoParams, json |-> NoParams, ep |-> "A"]
       /\ sent[2] = [method |-> "GET",
                     url |-> [service |-> Service(fn), idtype |-> IdType(fn),
                              last |-> IdType(fn)],
                     params |-> [name |-> IdType(fn), value |-> IdOk],
                     json |-> NoParams, ep |-> "B"]
       /\ IsSuccessEnvelope(LastResp)
            => (outcome.kind = "return" /\ outcome.val = LastResp.body.result)
       /\ outcome.kind # "return"
            => (outcome.kind \in {"CodartAPIError", "RequestException"}
                /\ ~IsSuccessEnvelope(LastResp))

C2_Witness ==
    /\ pc = "done" /\ prim.first = 404 /\ prim.n = 1
    /\ outcome.kind = "return" /\ outcome.val = [ep |-> "B", fn |-> "dni", id |-> Dni8]

\* C3: inside one _get_json, a first GET answered 403, 406 or 415 is retried
\* once as a POST to the same URL with the same parameters as JSON body, then,
\* only if the POST status is >= 400, once as a GET without parameters; the
\* WAF error is raised only after three rejected attempts; after any other
\* first status there is neither a POST nor a second GET.
C3_RetrySequence ==
    LET S == SentTo(ep)
    IN  /\ Len(S) <= 3
        /\ Len(S) >= 1 => S[1].method = "GET"
        /\ Len(S) >= 2 =>
              /\ resp.status \in {403, 406, 415}
              /\ S[2].method = "POST" /\ S[2].url = S[1].url
              /\ S[2].json = S[1].params /\ S[2].params = NoParams
        /\ Len(S) = 3 =>
              /\ resp2.status >= 400
              /\ S[3].method = "GET" /\ S[3].url = S[1].url
              /\ S[3].params = NoParams /\ S[3].json = NoParams
        /\ (resp # NoResp /\ resp.status \in {403, 406, 415} /\ pc \in {"except", "done"})
              => Len(S) >= 2
        /\ (resp2 # NoResp /\ resp2.status >= 400 /\ pc \in {"except", "done"})
              => Len(S) = 3
        /\ (resp2 # NoResp /\ resp2.status < 400) => Len(S) = 2
        /\ (resp # NoResp /\ resp.status \notin {403, 406, 415}) => Len(S) = 1
        /\ exc.kind = "waf" =>
              /\ Len(S) = 3
              /\ resp.status >= 400 /\ resp2.status >= 400 /\ resp3.status >= 400

C3_Witness ==
    /\ pc = "except" /\ exc.kind = "waf"
    /\ resp.status = 403 /\ resp2.status = 500 /\ resp3.status = 404
    /\ Len(sent) = 3

\* C4 (as stated): the error raised after GET, POST and parameter-less GET
\* were all rejected carries the status and the truncated body of every one of
\* the three attempts.
C4_ErrorCarriesAllAttempts ==
    exc.kind = "waf" =>
        \A r \in {resp, resp2, resp3} :
            /\ r.status \in {exc.status, exc.post}
            /\ \E n \in {200, 300} : Trunc(r.body.text, n) = exc.body

\* C4 (amended): that error carries the status of the first GET, the status
\* of the POST and the first 200 characters of the first GET's body.
C4_ErrorCarriesGetAndPost ==
    exc.kind = "waf" =>
        /\ exc.status = resp.status
        /\ exc.post = resp2.status
        /\ exc.body.len = (IF resp.body.text.len <= 200 THEN resp.body.text.len ELSE 200)
        /\ exc.body.mark = (IF resp.body.text.mark <= 200 THEN resp.body.text.mark ELSE 0)

C4_Witness ==
    /\ exc.kind = "waf"
    /\ resp.body.text.len > 200
    /\ resp3.status \notin {exc.status, exc.post}
    /\ resp2.body.text # resp.body.text

\* C5: a lookup returns a record only from a response with status < 400 that
\* is a JSON object with success exactly true; every other response the
\* lookup ends on raises CodartAPIError, and for success != true the error
\* carries message, else error, else 'success=false'.
C5_OnlySuccessEnvelopeReturns ==
    /\ (pc = "done" /\ outcome.kind = "return" /\ ~outcome.cached)
          => /\ LastResp.status < 400
             /\ LastResp.body.kind = "dict"
             /\ LastResp.body.success = "True"
             /\ outcome.val = LastResp.body.result
    /\ (EndedOnResponse
        /\ ~(LastResp.status < 400 /\ LastResp.body.kind = "dict"
             /\ LastResp.body.success = "True"))
          => /\ exc.kind \in {"http", "nodict", "upstream", "waf"}
             /\ outcome.kind # "return"
             /\ pc = "done" => (outcome.kind = "CodartAPIError" /\ outcome.err = exc)
    /\ (EndedOnResponse /\ LastResp.status < 400 /\ LastResp.body.kind = "dict"
        /\ LastResp.body.success # "True")
          => /\ exc.kind = "upstream"
             /\ exc.text = (IF LastResp.body.message # "" THEN LastResp.body.message
                            ELSE IF LastResp.body.error # "" THEN LastResp.body.error
                            ELSE "success=false")

C5_Witness ==
    /\ pc = "done" /\ outcome.kind = "CodartAPIError"
    /\ LastResp.status = 200 /\ LastResp.body.success = "int1"
    /\ exc.kind = "upstream" /\ exc.text = "limit"

\* C6 (as stated): two calls with the same valid identifier inside the cache
\* window issue exactly one outbound request in total.
C6_TwoCallsOneRequest ==
    ( /\ pc = "done"
      /\ prev.kind # "none" /\ prev.fn = fn /\ prev.arg = arg
      /\ Validar(fn, arg).ok
      /\ now - prev.at < 60 * 60 * 24 )
    => prev.nreq + Len(sent) = 1

\* C6 (amended): once a call with an identifier fetched a record from the
\* upstream service, a later call with the same function and identifier string
\* less than 24 h after that fetch issues no outbound request and returns that
\* record; the call that filled the cache issued between 1 and 6 requests; an
\* entry is served only while its age (counted from the fetch, not from the
\* last hit) is below 24 h, and only to the key that stored it.
C6_SecondCallServedFromCache ==
    /\ ( /\ pc = "done"
         /\ prev.kind = "return" /\ prev.nreq > 0
         /\ prev.fn = fn /\ prev.arg = arg
         /\ now - prev.at < 60 * 60 * 24 )
       => (Len(sent) = 0 /\ outcome.kind = "return" /\ outcome.val = prev.val)
    /\ (pc = "done" /\ outcome.kind = "return" /\ ~outcome.cached)
       => (Len(sent) >= 1 /\ Len(sent) <= 6)
    /\ (pc = "done" /\ outcome.cached)
       => /\ <<fn, arg>> \in DOMAIN cache
          /\ now - cache[<<fn, arg>>].at < 60 * 60 * 24
          /\ outcome.val = cache[<<fn, arg>>].val
          /\ Len(sent) = 0

C6_Witness ==
    /\ pc = "done" /\ outcome.cached
    /\ prev.kind = "return" /\ prev.nreq = 2 /\ prev.fn = fn /\ prev.arg = arg
    /\ now > prev.at

\* C7: after a transport failure of a request the remaining steps of the
\* fallback sequence are still attempted: the call fails only after the last
\* step (the parameter-less GET of the secondary endpoint).
C7_TransportFailureRetried ==
    (pc = "done" /\ outcome.kind = "RequestException")
    => /\ Len(sent) > 0
       /\ sent[Len(sent)].ep = "B"
       /\ Len(SentTo("B")) = 3

\* C8: an identifier that fails shape validation (after trimming: not all
\* digits, or not 8 digits for DNI / 11 for RUC) raises the validation error
\* before any outbound request; no fallback, no retry.
ShapeOk(f, a) ==
    LET lo == IF \E i \in 1..Len(a) : a[i] # " "
              THEN CHOOSE i \in 1..Len(a) : a[i] # " " /\ \A j \in 1..(i - 1) : a[j] = " "
              ELSE 1
        hi == IF \E i \in 1..Len(a) : a[i] # " "
              THEN CHOOSE i \in 1..Len(a) : a[i] # " " /\ \A j \in (i + 1)..Len(a) : a[j] = " "
              ELSE 0
        t == SubSeq(a, lo, hi)
    IN  /\ \A i \in 1..Len(t) : t[i] \in DigitChars
        /\ Len(t) = (IF f = "dni" THEN 8 ELSE 11)

C8_InvalidShapeNoRequest ==
    (pc # "idle" /\ ~ShapeOk(fn, arg))
    => (pc = "done" /\ outcome.kind = "ValueError" /\ sent = <<>> /\ ep = "A"
        /\ <<fn, arg>> \notin DOMAIN cache)

C8_Witness ==
    /\ pc = "done" /\ outcome.kind = "ValueError"
    /\ fn = "dni" /\ arg = SubSeq(Dni8, 1, 7) \o <<"x">>

(***************************************************************************)
(* Properties of the identifier validators                                 *)
(***************************************************************************)
AllDigits(s) == \A i \in 1..Len(s) : s[i] \in DigitChars
Trimmed(a) ==
    LET idx == {i \in 1..Len(a) : a[i] # " "}
    IN  IF idx = {} THEN <<>>
        ELSE SubSeq(a, CHOOSE i \in idx : \A j \in idx : i <= j,
                       CHOOSE i \in idx : \A j \in idx : i >= j)

\* C9 (as stated): an identifier is accepted exactly when it is 8 digits
\* (DNI), 9 digits (CE) or 11 digits (RUC); every other length and every
\* string containing a non-digit is rejected.
C9_ClassifiedByRawLength ==
    verdict.done =>
        /\ verdict.dni <=> (AllDigits(idstr) /\ Len(idstr) = 8)
        /\ verdict.doc <=> (AllDigits(idstr) /\ Len(idstr) \in {8, 9})
        /\ verdict.ruc <=> (AllDigits(idstr) /\ Len(idstr) = 11)

\* C9 (amended): the validators look at the identifier after trimming
\* surrounding whitespace: validar_dni accepts exactly 8 digits, validar_ruc
\* exactly 11 digits, _doc_identidad_valido 8 or 9 digits; a 9-digit
\* identifier is accepted by the form validator only, both lookups reject it;
\* every other trimmed length and every non-digit inside is rejected by all.
C9_ClassifiedByTrimmedLength ==
    verdict.done =>
        LET t == Trimmed(idstr)
        IN  /\ verdict.dni <=> (AllDigits(t) /\ Len(t) = 8)
            /\ verdict.doc <=> (AllDigits(t) /\ Len(t) \in {8, 9})
            /\ verdict.ruc <=> (AllDigits(t) /\ Len(t) = 11)
            /\ (verdict.dni \/ verdict.doc \/ verdict.ruc)
                  <=> (AllDigits(t) /\ Len(t) \in {8, 9, 11})

C9_Witness ==
    /\ verdict.done
    /\ Len(idstr) = 11 /\ idstr[1] = " " /\ idstr[11] = " "
    /\ verdict.doc /\ ~verdict.dni /\ ~verdict.ruc

(***************************************************************************)
(* Properties of the store                                                 *)
(***************************************************************************)
\* the keyword that fills column col in the wrapper op ("" if none does)
KeywordOf(op, col) ==
    IF \E t \in Range(FilaOf(op)) : t[1] = col
    THEN (CHOOSE t \in Range(FilaOf(op)) : t[1] = col)[2]
    ELSE ""
\* the caller supplied a value for column col
Supplied(c, col) == KeywordOf(c.op, col) \in DOMAIN c.kw
\* the tab of the call c holds what it held before, then one more row
OneMoreRow(c) ==
    LET g == store[SheetOf(c.op)]
        b == DataRows(c.before)
        a == DataRows(g)
    IN  /\ g # <<>> /\ g[1] = ColumnasOf(c.op)
        /\ Len(a) = Len(b) + 1
        /\ SubSeq(a, 1, Len(b)) = b
        /\ Len(a[Len(a)]) = Len(ColumnasOf(c.op))
NewRow(c) == store[SheetOf(c.op)][Len(store[SheetOf(c.op)])]

WriteSteps == {"hdr_leer", "hdr_escribir", "clear", "update", "c_hdr_escribir"}
\* the columns the operation op assigns in the rows it updates
TargetCols(op) ==
    IF op \in UpdateOps THEN {p[1] : p \in Range(TargetsOf(op))} ELSE {}
\* every data row the tab held before the call c is still there, at its place,
\* equal to what it was in every column the operation does not assign
RowsKept(c) ==
    LET b == DataRows(c.before)
        a == DataRows(store[SheetOf(c.op)])
        columnas == ColumnasOf(c.op)
    IN  /\ Len(a) >= Len(b)
        /\ \A i \in DOMAIN b : \A j \in DOMAIN columnas :
              columnas[j] \notin TargetCols(c.op) => a[i][j] = b[i][j]

\* C11: after any sequence of append_documento, append_evaluacion,
\* append_autorizacion, actualizar_estado_documento and
\* guardar_certificado_en_bd run one after the other, including those in which
\* a read of the sheet fails, every data row a tab held before an operation is
\* still in the tab when the operation has ended (no write call having failed).
C11_RowsNeverDeleted ==
    \A u \in Users :
        (call[u].pc \in {"ok", "failed"} /\ call[u].err \notin WriteSteps) =>
            RowsKept(call[u])

\* the rows are kept by every operation in which no call of the sheet failed
\* or was swallowed
C11_RowsKeptWithoutFailure ==
    \A u \in Users :
        (call[u].pc = "ok" /\ call[u].caught = "") => RowsKept(call[u])

\* ---- C12: two sessions submit to the same tab at once ----

\* the documents tab as earlier runs can have left it: never used, holding
\* the header only, or holding the header and one document
RaceTabs ==
    LET kw == Kwargs("append_documento", "B", FALSE)
        fila == nueva_fila(COLUMNAS_DOCUMENTOS, Fila("append_documento", kw),
                           AutoNumeroCol("append_documento"), <<>>)
    IN  {<<>>, <<COLUMNAS_DOCUMENTOS>>, <<COLUMNAS_DOCUMENTOS, fila>>}

InitRace ==
    /\ token = TRUE /\ upstream = "steady" /\ callsLeft = 0
    /\ IdleLookup /\ IdleValid
    /\ wsCache = FALSE
    /\ call = [u \in Users |-> NoCall]
    /\ ui = [u \in Users |-> NoUi]
    /\ \E g \in RaceTabs :
          store = [t \in Tabs |-> IF t = DOCS_SHEET_NAME THEN g ELSE <<>>]

\* two sessions register one document each with no turn taking: every sheet
\* call of one may fall between two sheet calls of the other
NextRace ==
    \/ \E u \in Users, who \in Persons :
          Submit(u, "append_documento", Kwargs("append_documento", who, who = "A"))
    \/ \E u \in Users : GetWorksheet(u)
    \/ \E u \in Users : WriteHeader(u)
    \/ \E u \in Users : LeerDf(u)
    \/ \E u \in Users : Clear(u)
    \/ \E u \in Users : Update(u)
    \/ \E u \in Users : StoreError(u)

SpecRace == InitRace /\ [][NextRace]_vars

\* the row the call c built for its submission ("nueva")
Nueva(c) == c.df[Len(c.df)]
\* the tab of the call c holds the row the call built
Holds(c) ==
    \E i \in DOMAIN DataRows(store[SheetOf(c.op)]) :
        DataRows(store[SheetOf(c.op)])[i] = Nueva(c)
\* both sessions' submissions have reported success
BothOk == \A u \in Users : call[u].pc = "ok"

\* C12: the append is a read, a clear and a write-back of the whole tab with
\* nothing to isolate it; when the submissions of two sessions to one tab
\* interleave and both report success, the tab is only sure to hold the new
\* row of one of them (the witness is the state in which the other is lost).
C12_OneOfTwoRowsSurvives ==
    BothOk => \E u \in Users : Holds(call[u])

\* both submissions reported success and the tab holds the new row of one
\* session only: the other session's write was overwritten
C12_Witness ==
    /\ BothOk
    /\ Nueva(call["u1"]) # Nueva(call["u2"])
    /\ \E u \in Users : Holds(call[u]) /\ \A v \in Users \ {u} : ~Holds(call[v])
    /\ Len(DataRows(store[DOCS_SHEET_NAME])) = 1

(***************************************************************************)
(* app_documentos.py, app_permisos.py: the forms that write to the store   *)
(***************************************************************************)
\* what is typed in the identity-document and coordinates fields
DniInputs == {" 12345678", "123456789", "1234567A", ""}
CoordInputs == {"-12.1, -76.8", "91, 0", ""}
DsInputs == {"", "ds-1"}

\* a click runs the page again: what the run before it showed (message,
\* download button) is gone, and the run shows the message m
Shown(r, m) == [r EXCEPT !.msg = m, !.download = FALSE, !.rendered = FALSE,
                         !.fail = "", !.consulta = ""]

\* the session starts the store operation op with the keywords kw; rest are
\* the operations the handler still has to call after it
StartOp(u, h, op, kw, rest) ==
    /\ call' = [call EXCEPT ![u] = [NoCall EXCEPT !.pc = "gw_leer", !.op = op,
                                                  !.kw = kw,
                                                  !.before = store[SheetOf(op)]]]
    /\ ui' = [ui EXCEPT ![u] = [Shown(ui[u], "") EXCEPT !.handler = h, !.rest = rest]]

\* the page shows st.error and nothing is called
ShowError(u) ==
    /\ ui' = [ui EXCEPT ![u] = Shown(ui[u], "error")]
    /\ UNCHANGED call

\* no click of the session is being served
Ready(u) == call[u].pc = "idle" /\ ui[u].handler = "" /\ ui[u].gen.i = 0

\* the rows of the two permit tabs
PermitRows ==
    Len(DataRows(store[EVAL_SHEET_NAME])) + Len(DataRows(store[AUTO_SHEET_NAME]))

\* documentos_para_evaluacion whose mask forgets the ESTADO column
documentos_para_evaluacion_any_estado(df) ==
    LET up(fila, col) == str_strip(str_upper(fila[IndexOf(COLUMNAS_DOCUMENTOS, col)]))
        keep(fila) ==
            /\ up(fila, "ASUNTO") \in {"RENOVACION", "SOLICITUD DE COMERCIO AMBULATORIO"}
            /\ up(fila, "PROCEDENTE / IMPROCEDENTE") = "PROCEDENTE"
    IN  IF df = <<>> THEN df ELSE SelectSeq(df, keep)

\* documentos_para_evaluacion: the rows kept by the mask, helper columns dropped
documentos_para_evaluacion(df) ==
    LET up(fila, col) == str_strip(str_upper(fila[IndexOf(COLUMNAS_DOCUMENTOS, col)]))
        keep(fila) ==
            /\ up(fila, "ASUNTO") \in {"RENOVACION", "SOLICITUD DE COMERCIO AMBULATORIO"}
            /\ up(fila, "PROCEDENTE / IMPROCEDENTE") = "PROCEDENTE"
            /\ up(fila, "ESTADO") \in {"PENDIENTE", "EN EVALUACION"}
    IN  IF df = <<>> THEN df ELSE SelectSeq(df, keep)

(***************************************************************************)
(* render_doc (app_permisos.py, app_compatibilidad.py) and the document    *)
(* generation of app_anuncios.py, one step per call that may raise         *)
(***************************************************************************)
Pages == {"permisos", "compatibilidad", "anuncios"}
\* the calls of a generation, in order
Steps(page) ==
    IF page = "permisos"
    THEN <<"exists", "DocxTemplate", "render", "save", "write", "offer">>
    ELSE <<"DocxTemplate", "render", "save", "offer">>
\* the page has an st.error for a failure at this step; any other exception
\* leaves the handler and Streamlit shows it
Caught(page, step) ==
    \/ page = "anuncios"
    \/ page = "compatibilidad" /\ step \in {"DocxTemplate", "render"}
    \/ page = "permisos" /\ step = "exists"

NoGen == [page |-> "", i |-> 0, exists |-> FALSE]
\* a generation that goes on to its next call after a failure
after_failure_goes_on(g) == [g EXCEPT !.i = g.i + 1]
\* the generation after a failure: return, or the exception ends the handler
after_failure(g) == NoGen

\* a "Generar ..." button: the page runs again and the generation starts
GenStart(u, page, exists) ==
    /\ ui[u].gen = NoGen /\ ui[u].cb = "" /\ ui[u].handler = ""
    /\ ui' = [ui EXCEPT ![u] =
                 [Shown(ui[u], "") EXCEPT
                     !.gen = [page |-> page, i |-> 1, exists |-> exists]]]
    /\ UNCHANGED <<store, call, wsCache>>
    /\ UNCHANGED <<lookupVars, validVars>>

\* the next call of the generation returns (ok) or raises; a missing template
\* fails os.path.exists, and DocxTemplate(...) or, at the latest, render
GenStep(u, ok, partial) ==
    /\ ui[u].gen # NoGen
    /\ LET g == ui[u].gen
           step == Steps(g.page)[g.i]
           last == g.i = Len(Steps(g.page))
           next == IF last THEN NoGen ELSE [g EXCEPT !.i = g.i + 1]
       IN  /\ step = "exists" => ok = g.exists
           /\ (step = "render" /\ ~g.exists) => ~ok
           /\ step = "offer" => ok
           /\ partial => (step = "write" /\ ~ok)
           /\ IF ok
              THEN ui' = [ui EXCEPT
                            ![u].gen = next,
                            ![u].rendered = ui[u].rendered \/ step = "render",
                            ![u].salidas = IF step = "write"
                                           THEN ui[u].salidas \cup {g.page}
                                           ELSE ui[u].salidas,
                            ![u].download = ui[u].download \/ step = "offer",
                            ![u].msg = IF step = "offer" THEN "success" ELSE ui[u].msg]
              ELSE ui' = [ui EXCEPT
                            ![u].gen = IF last THEN NoGen ELSE after_failure(g),
                            ![u].fail = step,
                            ![u].salidas = IF partial THEN ui[u].salidas \cup {g.page}
                                           ELSE ui[u].salidas,
                            ![u].msg = IF Caught(g.page, step) THEN "error"
                                       ELSE "exception"]
    /\ UNCHANGED <<store, call, wsCache>>
    /\ UNCHANGED <<lookupVars, validVars>>

(***************************************************************************)
(* app_documentos.py, app_permisos.py: the form handlers                   *)
(***************************************************************************)
\* "Registrar Documento Simple"
RegistrarDocumento(u, dni, num_ds, filled) ==
    /\ Ready(u)
    /\ TotalRows < MaxRows
    /\ IF dni # "" /\ ~doc_identidad_valido(Chars(dni)) THEN ShowError(u)
       ELSE IF ~filled \/ str_strip(dni) = "" THEN ShowError(u)
       ELSE StartOp(u, "registrar", "append_documento",
                    [Kwargs("append_documento", "A", TRUE)
                        EXCEPT !["dni"] = str_strip(dni),
                               !["num_documento_simple"] = str_strip(num_ds),
                               !["asunto"] = to_upper("RENOVACION"),
                               !["procedencia"] = to_upper("PROCEDENTE")],
                    <<>>)
    /\ UNCHANGED <<store, wsCache>>
    /\ UNCHANGED <<lookupVars, validVars>>

\* "Cargar datos del D.S. seleccionado": the fields of the evaluation form
\* take the cells of the i-th document offered by documentos_para_evaluacion
CargarDS(u, i) ==
    /\ Ready(u)
    /\ LET df_docs == documentos_para_evaluacion(
                          leer_df(get_all_values(store[DOCS_SHEET_NAME]),
                                  COLUMNAS_DOCUMENTOS))
       IN  /\ i \in DOMAIN df_docs
           /\ ui' = [ui EXCEPT ![u] =
                        [Shown(ui[u], "") EXCEPT
                            !.ds = df_docs[i][IndexOf(COLUMNAS_DOCUMENTOS,
                                                      "N° DE DOCUMENTO SIMPLE")]]]
    /\ UNCHANGED <<store, call, wsCache>>
    /\ UNCHANGED <<lookupVars, validVars>>

\* "Generar Evaluacion (.docx)" whose checks leave the coordinates out
GenerarEvaluacion_skips_coordinates(u, dni, coordenadas, ds, filled, exists) ==
    /\ Ready(u)
    /\ LET falt == ~filled \/ str_strip(dni) = "" \/ str_strip(coordenadas) = ""
       IN  IF dni # "" /\ ~doc_identidad_valido(Chars(dni))
           THEN ui' = [ui EXCEPT ![u] = [Shown(ui[u], "error") EXCEPT !.falt = falt]]
           ELSE IF falt
           THEN ui' = [ui EXCEPT ![u] = [Shown(ui[u], "error") EXCEPT !.falt = falt]]
           ELSE ui' = [ui EXCEPT ![u] =
                         [Shown(ui[u], "") EXCEPT
                             !.falt = falt,
                             !.eval_ctx = [dni |-> str_strip(dni),
                                           coordenadas |-> coordenadas,
                                           ds |-> str_strip(to_upper(ds))],
                             !.gen = [page |-> "permisos", i |-> 1,
                                      exists |-> exists]]]
    /\ UNCHANGED <<store, call, wsCache>>
    /\ UNCHANGED <<lookupVars, validVars>>

\* "Generar Evaluacion (.docx)": the checks, st.session_state["eval_ctx"],
\* then render_doc
GenerarEvaluacion(u, dni, coordenadas, ds, filled, exists) ==
    /\ Ready(u)
    /\ LET falt == ~filled \/ str_strip(dni) = "" \/ str_strip(coordenadas) = ""
       IN  IF dni # "" /\ ~doc_identidad_valido(Chars(dni))
           THEN ui' = [ui EXCEPT ![u] = [Shown(ui[u], "error") EXCEPT !.falt = falt]]
           ELSE IF ~coordenadas_validas(coordenadas)
           THEN ui' = [ui EXCEPT ![u] = [Shown(ui[u], "error") EXCEPT !.falt = falt]]
           ELSE IF falt
           THEN ui' = [ui EXCEPT ![u] = [Shown(ui[u], "error") EXCEPT !.falt = falt]]
           ELSE ui' = [ui EXCEPT ![u] =
                         [Shown(ui[u], "") EXCEPT
                             !.falt = falt,
                             !.eval_ctx = [dni |-> str_strip(dni),
                                           coordenadas |-> coordenadas,
                                           ds |-> str_strip(to_upper(ds))],
                             !.gen = [page |-> "permisos", i |-> 1,
                                      exists |-> exists]]]
    /\ UNCHANGED <<store, call, wsCache>>
    /\ UNCHANGED <<lookupVars, validVars>>

\* Modulo 2 without eval_ctx shows st.warning and no form; with it,
\* "Generar Resolucion" checks its own fields and calls render_doc
GenerarResolucion(u, complete, exists) ==
    /\ Ready(u)
    /\ IF ui[u].eval_ctx = NoCtx
       THEN ui' = [ui EXCEPT ![u] = Shown(ui[u], "warning")]
       ELSE IF ~complete
       THEN ui' = [ui EXCEPT ![u] = Shown(ui[u], "error")]
       ELSE ui' = [ui EXCEPT ![u] =
                     [Shown(ui[u], "") EXCEPT
                         !.gen = [page |-> "permisos", i |-> 1, exists |-> exists]]]
    /\ UNCHANGED <<store, call, wsCache>>
    /\ UNCHANGED <<lookupVars, validVars>>

\* "Generar Certificado": st.error without eval_ctx or with fields missing,
\* render_doc otherwise
GenerarCertificado(u, complete, exists) ==
    /\ Ready(u)
    /\ IF ui[u].eval_ctx = NoCtx \/ ~complete
       THEN ui' = [ui EXCEPT ![u] = Shown(ui[u], "error")]
       ELSE ui' = [ui EXCEPT ![u] =
                     [Shown(ui[u], "") EXCEPT
                         !.gen = [page |-> "permisos", i |-> 1, exists |-> exists]]]
    /\ UNCHANGED <<store, call, wsCache>>
    /\ UNCHANGED <<lookupVars, validVars>>

\* "Ediciones rapidas": the overrides are written back into eval_ctx
EdicionesRapidas(u, dni, coordenadas) ==
    /\ Ready(u)
    /\ ui[u].eval_ctx # NoCtx
    /\ Len(dni) <= 9
    /\ ui' = [ui EXCEPT ![u] =
                 [Shown(ui[u], "") EXCEPT
                     !.eval_ctx = [dni |-> dni, coordenadas |-> str_strip(coordenadas),
                                   ds |-> to_upper(ui[u].eval_ctx.ds)]]]
    /\ UNCHANGED <<store, call, wsCache>>
    /\ UNCHANGED <<lookupVars, validVars>>

\* eva.get("cod_evaluacion", ""): the code of the evaluation of the session
CodEvaluacion == "A:cod_evaluacion"

\* the keywords "Guardar TODO" passes to the operation op
GuardarKw(op, eva) ==
    CASE op = "append_evaluacion" ->
            [Kwargs(op, "A", TRUE) EXCEPT !["num_ds"] = eva.ds,
                                          !["cod_evaluacion"] = CodEvaluacion]
      [] op = "append_autorizacion" ->
            [Kwargs(op, "A", TRUE) EXCEPT !["ds"] = eva.ds, !["dni"] = eva.dni,
                                          !["coordenadas"] = eva.coordenadas,
                                          !["num_eval"] = CodEvaluacion]
      [] OTHER -> [num_documento_simple |-> eva.ds, nuevo_estado |-> "AUTORIZADO"]

\* "Guardar TODO en BD": the checks, then append_evaluacion
GuardarTodo(u, complete) ==
    /\ Ready(u)
    /\ PermitRows + 2 <= MaxRows
    /\ LET eva == ui[u].eval_ctx
       IN  IF eva = NoCtx \/ ~complete THEN ShowError(u)
           ELSE StartOp(u, "guardar", "append_evaluacion",
                        GuardarKw("append_evaluacion", eva),
                        <<"append_autorizacion">>
                            \o (IF eva.ds # "" THEN <<"actualizar_estado_documento">>
                                ELSE <<>>))
    /\ UNCHANGED <<store, wsCache>>
    /\ UNCHANGED <<lookupVars, validVars>>

\* an operation of the handler has returned: the handler calls the next one
Siguiente(u) ==
    /\ ui[u].handler # "" /\ call[u].pc = "ok" /\ ui[u].rest # <<>>
    /\ StartOp(u, ui[u].handler, Head(ui[u].rest),
               GuardarKw(Head(ui[u].rest), ui[u].eval_ctx), Tail(ui[u].rest))
    /\ UNCHANGED <<store, wsCache>>
    /\ UNCHANGED <<lookupVars, validVars>>

\* the handler ends: st.success after the last operation, st.error in the
\* except clause when an operation raised
Termina(u) ==
    /\ ui[u].handler # ""
    /\ \/ call[u].pc = "ok" /\ ui[u].rest = <<>>
       \/ call[u].pc = "failed"
    /\ ui' = [ui EXCEPT ![u].handler = "", ![u].rest = <<>>,
                        ![u].msg = IF call[u].pc = "ok" THEN "success" ELSE "error"]
    /\ call' = [call EXCEPT ![u] = NoCall]
    /\ UNCHANGED <<store, wsCache>>
    /\ UNCHANGED <<lookupVars, validVars>>

\* the pages of one session, used one action at a time
NextForms ==
    \/ \E u \in Operator, dni \in DniInputs, filled \in BOOLEAN :
          RegistrarDocumento(u, dni, "DS-1", filled)
    \/ \E u \in Operator, dni \in DniInputs, coordenadas \in CoordInputs,
          ds \in DsInputs :
          GenerarEvaluacion(u, dni, coordenadas, ds, TRUE, TRUE)
    \/ \E u \in Users : GenStep(u, TRUE, FALSE)
    \/ \E u \in Operator, dni \in DniInputs, coordenadas \in CoordInputs :
          EdicionesRapidas(u, dni, coordenadas)
    \/ \E u \in Operator, complete \in BOOLEAN : GuardarTodo(u, complete)
    \/ \E u \in Users : Siguiente(u)
    \/ \E u \in Users : Termina(u)
    \/ \E u \in Users : GetWorksheet(u)
    \/ \E u \in Users : WriteHeader(u)
    \/ \E u \in Users : LeerDf(u)
    \/ \E u \in Users : LeerUpdate(u)
    \/ \E u \in Users : Clear(u)
    \/ \E u \in Users : Update(u)
    \/ \E u \in Users : StoreError(u)

SpecForms == InitStore /\ [][NextForms]_vars

\* ---- C13: what the forms let into the store ----
\* the cells of column col in the data rows of the tab of op
CellsOf(op, col) ==
    {DataRows(store[SheetOf(op)])[i][IndexOf(ColumnasOf(op), col)] :
        i \in DOMAIN DataRows(store[SheetOf(op)])}
\* exactly 8 or 9 digits
EightOrNineDigits(cell) == AllDigits(Chars(cell)) /\ Len(cell) \in {8, 9}

\* C13: after any sequence of document registrations, Evaluation
\* generations, quick-edit overrides and Guardar TODO, every row of
\* Documentos_CA and of Autorizaciones_CA carries an identity document of
\* exactly 8 or 9 digits and every row of Autorizaciones_CA coordinates
\* "lat, lon" within [-90, 90] x [-180, 180].
C13_OnlyValidInputStored ==
    /\ \A c \in CellsOf("append_documento", "DNI") : EightOrNineDigits(c)
    /\ \A c \in CellsOf("append_autorizacion", "DNI") : EightOrNineDigits(c)
    /\ \A c \in CellsOf("append_autorizacion", "COORDENADAS") : coordenadas_validas(c)

\* the checks of the registration form do keep invalid documents out of
\* Documentos_CA
C13_DocumentosValid ==
    \A c \in CellsOf("append_documento", "DNI") : EightOrNineDigits(c)

\* ---- C14: a failed sheet call aborts the save ----
\* C14: when a read or a write of the sheet fails during a save operation,
\* the operation is aborted: from the failing call on it performs no further
\* call of the sheet and it ends in the handler's except clause (st.error),
\* never with the success message.
C14_FailureAborts ==
    \A u \in Users :
        (call[u].err # "" \/ call[u].caught # "") => call[u].pc = "failed"

(***************************************************************************)
(* sheets_comercio.py: reading a tab                                       *)
(***************************************************************************)
ReadOps == {"leer_evaluaciones", "leer_autorizaciones", "leer_documentos",
            "documentos_para_evaluacion"}

\* ---- sheets as earlier runs, earlier versions and manual edits leave them ----
\* a stored record: column -> cell
Sample(columnas, who, special) ==
    [c \in Range(columnas) |->
        IF c \in DOMAIN special THEN special[c] ELSE who \o ":" \o c]

DocSamples ==
    LET doc(who, asunto, proc, estado) ==
            Sample(COLUMNAS_DOCUMENTOS, who,
                   [c \in {"ASUNTO", "PROCEDENTE / IMPROCEDENTE", "ESTADO"} |->
                       CASE c = "ASUNTO" -> asunto
                         [] c = "ESTADO" -> estado
                         [] OTHER -> proc])
    IN  { doc("A", "RENOVACION", "PROCEDENTE", "PENDIENTE"),
          doc("B", " solicitud de comercio ambulatorio", "procedente ", "en evaluacion"),
          doc("A", "OTROS", "PROCEDENTE", "PENDIENTE"),
          doc("B", "RENOVACION", "IMPROCEDENTE", "EN EVALUACION"),
          doc("A", "RENOVACION", "PROCEDENTE", "AUTORIZADO") }

SamplesOf(t) ==
    IF t = DOCS_SHEET_NAME THEN DocSamples
    ELSE IF t = EVAL_SHEET_NAME
    THEN {Sample(COLUMNAS_EVALUACION, who, NoKw) : who \in Persons}
    ELSE {Sample(COLUMNAS_AUTORIZACION, who, NoKw) : who \in {"A"}}

DeclaredOf(t) ==
    IF t = DOCS_SHEET_NAME THEN COLUMNAS_DOCUMENTOS
    ELSE IF t = EVAL_SHEET_NAME THEN COLUMNAS_EVALUACION
    ELSE COLUMNAS_AUTORIZACION

\* the header as declared, lacking its first column, in reverse order, or
\* with a column the program does not know
HeaderVariants(columnas) ==
    { columnas, Tail(columnas),
      [k \in DOMAIN columnas |-> columnas[Len(columnas) + 1 - k]],
      columnas \o <<"OBSERVACIONES">> }

\* the sheet holding the records recs under the header
Sheet(header, recs) ==
    <<header>> \o
        [i \in DOMAIN recs |->
            [k \in DOMAIN header |->
                IF header[k] \in DOMAIN recs[i] THEN recs[i][header[k]] ELSE "nota"]]

SampleSheets(t) ==
    {<<>>} \cup
    UNION { { Sheet(h, recs) : h \in HeaderVariants(DeclaredOf(t)) } :
              recs \in UNION {[1..n -> SamplesOf(t)] : n \in 0..MaxRows} }

InitSheets ==
    /\ token = TRUE /\ upstream = "steady" /\ callsLeft = 0
    /\ IdleLookup /\ IdleValid
    /\ wsCache = FALSE
    /\ call = [u \in Users |-> NoCall]
    /\ ui = [u \in Users |-> NoUi]
    /\ \E t \in {DOCS_SHEET_NAME, EVAL_SHEET_NAME, AUTO_SHEET_NAME} :
          \E g \in SampleSheets(t) :
              store = [x \in Tabs |-> IF x = t THEN g ELSE <<>>]

\* a page calls leer_* or documentos_para_evaluacion
SubmitLeer(u, op) ==
    /\ call[u].pc = "idle"
    /\ call' = [call EXCEPT ![u] = [NoCall EXCEPT !.pc = "gw_leer", !.op = op,
                                                  !.before = store[SheetOf(op)]]]
    /\ UNCHANGED store
    /\ UNCHANGED otherThanStore

\* _leer_df returns the frame; documentos_para_evaluacion filters it
LeerTabla(u) ==
    /\ call[u].pc = "leer"
    /\ call[u].op \in ReadOps
    /\ LET op == call[u].op
           df == leer_df(get_all_values(store[SheetOf(op)]), ColumnasOf(op))
       IN  call' = [call EXCEPT ![u].df = df,
                                ![u].ret = IF op = "documentos_para_evaluacion"
                                           THEN documentos_para_evaluacion(df)
                                           ELSE df,
                                ![u].pc = "ok"]
    /\ UNCHANGED store
    /\ UNCHANGED otherThanStore

\* reads, appends and updates of one session on the sheets as found
NextSheets ==
    \/ \E u \in Operator, op \in ReadOps : SubmitLeer(u, op)
    \/ \E u \in Operator, op \in AppendOps :
          Submit(u, op, Kwargs(op, "B", FALSE))
    \/ \E u \in Users : GetWorksheet(u)
    \/ \E u \in Users : WriteHeader(u)
    \/ \E u \in Users : LeerTabla(u)
    \/ \E u \in Users : LeerDf(u)
    \/ \E u \in Users : Clear(u)
    \/ \E u \in Users : Update(u)
    \/ \E u \in Users : StoreError(u)
    \/ \E u \in Users : Ack(u)

SpecSheets == InitSheets /\ [][NextSheets]_vars

\* ---- C15: the table a read yields, the sheet a write leaves ----
\* C15: a read of a tab (leer_evaluaciones, leer_autorizaciones,
\* leer_documentos) yields one row per data row of the sheet, each with one
\* cell per declared column in declared order: the sheet's cell under the
\* header of that name, and the empty string when the sheet's header (names
\* all distinct) lacks the column; and when a write has completed, the sheet's
\* first row is the declared header and every data row has one cell per
\* declared column.
C15_ReadAndWriteFollowDeclaredColumns ==
    \A u \in Users :
        LET c == call[u]
            columnas == ColumnasOf(c.op)
            g == store[SheetOf(c.op)]
        IN  /\ (c.pc = "ok" /\ c.op \in ReadOps \ {"documentos_para_evaluacion"}) =>
                  /\ Len(c.ret) = Len(DataRows(g))
                  /\ \A i \in DOMAIN c.ret :
                        /\ Len(c.ret[i]) = Len(columnas)
                        /\ \A j \in DOMAIN columnas :
                              /\ columnas[j] \notin Range(g[1]) => c.ret[i][j] = ""
                              /\ \A k \in DOMAIN g[1] :
                                    g[1][k] = columnas[j] => c.ret[i][j] = g[i + 1][k]
            /\ (c.pc = "ok" /\ c.op \in AppendOps) =>
                  /\ g[1] = columnas
                  /\ \A i \in DOMAIN DataRows(g) : Len(DataRows(g)[i]) = Len(columnas)
                  /\ Len(DataRows(g)) = Len(DataRows(c.before)) + 1

\* a read has returned the rows of a sheet whose header lacks a declared
\* column: the column is there, filled with the empty string
C15_Witness ==
    \E u \in Users :
        LET c == call[u]
            g == store[SheetOf(c.op)]
        IN  /\ c.pc = "ok" /\ c.op = "leer_documentos"
            /\ Len(c.ret) = 2
            /\ "ESTADO" \notin Range(g[1])
            /\ c.ret[1][IndexOf(COLUMNAS_DOCUMENTOS, "ESTADO")] = ""
            /\ c.ret[1][IndexOf(COLUMNAS_DOCUMENTOS, "DNI")] = "A:DNI"

\* ---- C20: the documents offered for evaluation ----
\* the rows of the table among which pick(row) holds, in the table's order
Picked(df, pick(_)) ==
    LET I == {i \in DOMAIN df : pick(df[i])}
    IN  [k \in 1..Cardinality(I) |->
            df[CHOOSE i \in I : Cardinality({j \in I : j < i}) = k - 1]]

DocCell(fila, col) == fila[IndexOf(COLUMNAS_DOCUMENTOS, col)]

\* C20 as stated: the rows returned are those whose ASUNTO, trimmed and
\* upper-cased, is RENOVACION or SOLICITUD DE COMERCIO AMBULATORIO, whose
\* PROCEDENTE / IMPROCEDENTE cell is PROCEDENTE and whose ESTADO cell is
\* PENDIENTE or EN EVALUACION, the two cells taken as stored.
C20_RowsWithStoredCellsEqual ==
    \A u \in Users :
        LET c == call[u]
            pick(fila) ==
                /\ str_strip(str_upper(DocCell(fila, "ASUNTO")))
                      \in {"RENOVACION", "SOLICITUD DE COMERCIO AMBULATORIO"}
                /\ DocCell(fila, "PROCEDENTE / IMPROCEDENTE") = "PROCEDENTE"
                /\ DocCell(fila, "ESTADO") \in {"PENDIENTE", "EN EVALUACION"}
        IN  (c.pc = "ok" /\ c.op = "documentos_para_evaluacion") =>
                c.ret = Picked(c.df, pick)

\* C20: documentos_para_evaluacion returns, in stored order and with one
\* cell per declared column, exactly the rows of Documentos_CA whose ASUNTO,
\* PROCEDENTE / IMPROCEDENTE and ESTADO cells, each trimmed and upper-cased,
\* are RENOVACION or SOLICITUD DE COMERCIO AMBULATORIO, PROCEDENTE, and
\* PENDIENTE or EN EVALUACION; the cells returned are the stored ones, and the
\* data rows of the sheet are as they were before the call.
C20_RowsWithNormalisedCellsEqual ==
    \A u \in Users :
        LET c == call[u]
            norm(fila, col) == str_strip(str_upper(DocCell(fila, col)))
            pick(fila) ==
                /\ norm(fila, "ASUNTO")
                      \in {"RENOVACION", "SOLICITUD DE COMERCIO AMBULATORIO"}
                /\ norm(fila, "PROCEDENTE / IMPROCEDENTE") = "PROCEDENTE"
                /\ norm(fila, "ESTADO") \in {"PENDIENTE", "EN EVALUACION"}
            tabla == leer_df(get_all_values(store[DOCS_SHEET_NAME]),
                             COLUMNAS_DOCUMENTOS)
        IN  (c.pc = "ok" /\ c.op = "documentos_para_evaluacion") =>
                /\ c.ret = Picked(tabla, pick)
                /\ \A k \in DOMAIN c.ret : Len(c.ret[k]) = Len(COLUMNAS_DOCUMENTOS)
                /\ DataRows(store[DOCS_SHEET_NAME]) = DataRows(c.before)

\* of two stored rows the call has returned the second alone, a row whose
\* cells read " solicitud de comercio ambulatorio", "procedente " and
\* "en evaluacion"
C20_Witness ==
    \E u \in Users :
        LET c == call[u]
        IN  /\ c.pc = "ok" /\ c.op = "documentos_para_evaluacion"
            /\ Len(c.df) = 2 /\ Len(c.ret) = 1
            /\ c.ret[1] = c.df[2]
            /\ DocCell(c.ret[1], "PROCEDENTE / IMPROCEDENTE") = "procedente "
            /\ DocCell(c.ret[1], "ESTADO") = "en evaluacion"

(***************************************************************************)
(* sheets_comercio.py: the update-by-key operations on the sheets as found *)
(***************************************************************************)
\* keys given to the updates: the key of applicant A's records, the same key
\* with spaces around it, and a key no record holds
SampleKeys(op) == {"A:" \o KeyCol(op), " A:" \o KeyCol(op) \o " ", "C:" \o KeyCol(op)}

NextUpdates ==
    \/ \E u \in Operator, op \in UpdateOps :
          \E key \in SampleKeys(op), tag \in UpdateTags :
              SubmitUpdate(u, op, UpdateKwargs(op, key, tag))
    \/ \E u \in Users : GetWorksheet(u)
    \/ \E u \in Users : WriteHeader(u)
    \/ \E u \in Users : LeerUpdate(u)
    \/ \E u \in Users : Clear(u)
    \/ \E u \in Users : Update(u)
    \/ \E u \in Users : StoreError(u)
    \/ \E u \in Users : Ack(u)

SpecUpdates == InitSheets /\ [][NextUpdates]_vars

\* ---- C16: what an update by key changes ----
\* the table of the call's tab as a read yields it, before and after the call
TableBefore(c) == leer_df(get_all_values(c.before), ColumnasOf(c.op))
TableAfter(c) == leer_df(get_all_values(store[SheetOf(c.op)]), ColumnasOf(c.op))
\* the key cell of row i before the call
KeyCell(c, i) == TableBefore(c)[i][IndexOf(ColumnasOf(c.op), KeyCol(c.op))]
\* the call changed nothing but target columns of the rows picked by hit
FrameOf(c, hit(_)) ==
    /\ Len(TableAfter(c)) = Len(TableBefore(c))
    /\ \A i \in DOMAIN TableBefore(c) : \A j \in DOMAIN ColumnasOf(c.op) :
          \/ TableAfter(c)[i][j] = TableBefore(c)[i][j]
          \/ hit(i) /\ ColumnasOf(c.op)[j] \in TargetCols(c.op)
\* the sheet is as it was before the call (the header row apart, which a
\* read writes into a sheet that has none when allowHeader)
Untouched(c, allowHeader) ==
    \/ store[SheetOf(c.op)] = c.before
    \/ allowHeader /\ c.before = <<>> /\ store[SheetOf(c.op)] = <<ColumnasOf(c.op)>>

\* C16 (as stated): an update by key changes only its target columns and only
\* in rows whose key cell equals the given key; every other cell, the number
\* of rows and their order are unchanged, and when the tab is empty or no row
\* matches the key nothing is written to the sheet.
C16_OnlyRowsWithEqualKey ==
    \A u \in Users :
        LET c == call[u]
            hit(i) == KeyCell(c, i) = c.kw[KeyKeyword(c.op)]
        IN  (c.pc = "ok" /\ c.op \in UpdateOps) =>
                /\ FrameOf(c, hit)
                /\ (~\E i \in DOMAIN TableBefore(c) : hit(i)) => Untouched(c, FALSE)

\* C16 (amended): an update by key changes only its target columns and only
\* in rows whose key cell equals the given key, for
\* actualizar_estado_documento both taken without surrounding spaces; every
\* other cell of the declared columns, the number of rows and their order are
\* unchanged, and when no row matches no data row is written: the sheet is
\* left as it was, but for the header a never-used sheet receives on its read.
C16_UpdateChangesOnlyMatchingRows ==
    \A u \in Users :
        LET c == call[u]
            key == c.kw[KeyKeyword(c.op)]
            hit(i) == IF c.op = "actualizar_estado_documento"
                      THEN Trimmed(Chars(KeyCell(c, i))) = Trimmed(Chars(key))
                      ELSE KeyCell(c, i) = key
        IN  (c.pc = "ok" /\ c.op \in UpdateOps) =>
                /\ FrameOf(c, hit)
                /\ (~\E i \in DOMAIN TableBefore(c) : hit(i)) => Untouched(c, TRUE)

\* actualizar_estado_documento has set ESTADO in the one row of two that
\* holds the key
C16_Witness ==
    \E u \in Users :
        LET c == call[u]
            e == IndexOf(COLUMNAS_DOCUMENTOS, "ESTADO")
        IN  /\ c.pc = "ok" /\ c.op = "actualizar_estado_documento"
            /\ Len(TableBefore(c)) = 2
            /\ KeyCell(c, 1) # KeyCell(c, 2)
            /\ \E i \in 1..2 :
                  /\ TableAfter(c)[i][e] = "AUTORIZADO"
                  /\ TableBefore(c)[i][e] # "AUTORIZADO"
                  /\ TableAfter(c)[3 - i] = TableBefore(c)[3 - i]

(***************************************************************************)
(* codart.py: dni_a_nombre_completo; the autocomplete callbacks of the     *)
(* pages                                                                   *)
(***************************************************************************)
\* the fields of a lookup result the pages read; a missing key reads as ""
NoPerson == [first_name |-> "", first_last_name |-> "", second_last_name |-> "",
             full_name |-> "", razon_social |-> ""]
PersonRecords ==
    [first_name : {"", " ", "ana "}, first_last_name : {"", " pérez", "de la Cruz"},
     second_last_name : {"", " ", "Díaz"}, full_name : {"", " ", " Ana Pérez ", "x"},
     razon_social : {""}]
\* results the callbacks meet: nothing, a person or company, blanks only
AutoRecords ==
    { NoPerson,
      [first_name |-> "ana ", first_last_name |-> " pérez", second_last_name |-> "",
       full_name |-> "", razon_social |-> "Acme sac "],
      [first_name |-> " ", first_last_name |-> "", second_last_name |-> " ",
       full_name |-> " ", razon_social |-> " "] }

\* " ".join(parts)
RECURSIVE join_space(_)
join_space(parts) ==
    IF parts = <<>> THEN ""
    ELSE IF Len(parts) = 1 THEN parts[1]
    ELSE parts[1] \o " " \o join_space(Tail(parts))

\* dni_a_nombre_completo that puts the surnames first
dni_a_nombre_completo_surnames_first(res) ==
    LET nombres == str_strip(res.first_name)
        ape1 == str_strip(res.first_last_name)
        ape2 == str_strip(res.second_last_name)
        filled(p) == p # ""
    IN  IF nombres = "" /\ ape1 = "" /\ ape2 = "" THEN str_strip(res.full_name)
        ELSE str_strip(str_upper(join_space(SelectSeq(<<ape1, ape2, nombres>>, filled))))

\* dni_a_nombre_completo
dni_a_nombre_completo(res) ==
    LET nombres == str_strip(res.first_name)
        ape1 == str_strip(res.first_last_name)
        ape2 == str_strip(res.second_last_name)
        filled(p) == p # ""
    IN  IF nombres = "" /\ ape1 = "" /\ ape2 = "" THEN str_strip(res.full_name)
        ELSE str_strip(str_upper(join_space(SelectSeq(<<nombres, ape1, ape2>>, filled))))

\* _extract_razon_social: the first of razon_social, ..., full_name that is
\* not blank
extract_razon_social(res) ==
    IF str_strip(res.razon_social) # "" THEN str_strip(res.razon_social)
    ELSE str_strip(res.full_name)

Callbacks == {"_cb_autocomplete_dni", "_cb_autocomplete_dni_ds", "_cb_autocomplete_ruc",
              "_autocompletar_con_dni", "_autocompletar_con_ruc"}
CbFn(cb) == IF cb \in {"_cb_autocomplete_ruc", "_autocompletar_con_ruc"} THEN "ruc"
            ELSE "dni"

\* the name the callback cb takes from the result res
CbNombre(cb, res) ==
    CASE cb = "_cb_autocomplete_ruc" -> extract_razon_social(res)
      [] cb = "_autocompletar_con_ruc" -> str_strip(res.razon_social)
      [] cb = "_autocompletar_con_dni" -> str_strip(dni_a_nombre_completo(res))
      [] OTHER -> dni_a_nombre_completo(res)

\* the callback that stores the name whatever the lookup gave
CbStores_always(kind, nombre) == TRUE
\* the callback stores the name: the lookup returned and the name is not empty
CbStores(kind, nombre) == kind = "return" /\ nombre # ""

\* on_change / on_click: the callback reads the typed identifier, runs its own
\* checks and reaches the call of consultar_dni / consultar_ruc, or returns
CbEnter(u, cb, typed) ==
    /\ pc = "idle" /\ callsLeft > 0
    /\ ui[u].cb = "" /\ call[u].pc = "idle"
    /\ LET val == strip(typed)
           own == cb \in {"_cb_autocomplete_dni", "_cb_autocomplete_dni_ds",
                          "_cb_autocomplete_ruc"}
           digits == IF CbFn(cb) = "dni" THEN 8 ELSE 11
           shaped == isdigit(val) /\ Len(val) = digits
       IN  IF own /\ ~shaped
           THEN ui' = [ui EXCEPT ![u].msg =
                          IF cb = "_cb_autocomplete_ruc" /\ val # <<>> THEN "warning"
                          ELSE ""]
           ELSE ui' = [ui EXCEPT ![u].cb = cb, ![u].arg = val,
                                 ![u].msg = IF own THEN "" ELSE ui[u].msg]
    /\ UNCHANGED <<store, call, wsCache>>
    /\ UNCHANGED <<lookupVars, validVars>>

\* the lookup has returned or raised: the callback stores the name and the
\* message, or the message only (its except clauses)
CbResume(u, res) ==
    /\ pc = "done" /\ ui[u].cb # ""
    /\ outcome.kind # "return" => res = NoPerson
    /\ LET cb == ui[u].cb
           nombre == IF outcome.kind = "return" THEN CbNombre(cb, res) ELSE ""
       IN  ui' = [ui EXCEPT
                    ![u].cb = "",
                    ![u].res = [person |-> res, kind |-> outcome.kind, cb |-> cb],
                    ![u].nombre = nombre,
                    ![u].name = IF CbStores(outcome.kind, nombre)
                                THEN (IF cb = "_cb_autocomplete_dni"
                                      THEN to_upper(nombre) ELSE nombre)
                                ELSE ui[u].name,
                    ![u].msg = IF outcome.kind # "return" THEN "error"
                               ELSE IF nombre # "" THEN "success" ELSE "warning"]
    /\ UNCHANGED <<store, call, wsCache>>
    /\ UNCHANGED <<lookupVars, validVars>>

NoCb == \A u \in Users : ui[u].cb = ""

NextAuto ==
    \/ \E u \in Operator, cb \in Callbacks, typed \in LookupIds : CbEnter(u, cb, typed)
    \/ \E u \in Users : ui[u].cb # "" /\ Consultar(CbFn(ui[u].cb), ui[u].arg)
    \/ \E r \in Answers(ep, fn, Validar(fn, arg).val) : Get1(r)
    \/ \E r \in Answers(ep, fn, Validar(fn, arg).val) : Post(r)
    \/ \E r \in Answers(ep, fn, Validar(fn, arg).val) : Get3(r)
    \/ Except
    \/ \E u \in Users, res \in AutoRecords : CbResume(u, res)
    \/ NoCb /\ Finish

InitAuto ==
    /\ token \in BOOLEAN /\ upstream = "any" /\ callsLeft = 1
    /\ IdleLookup /\ IdleValid
    /\ store = [t \in Tabs |-> <<>>]
    /\ call = [u \in Users |-> NoCall]
    /\ wsCache = FALSE
    /\ ui = [u \in Users |-> [NoUi EXCEPT !.name = "NOMBRE TECLEADO"]]

SpecAuto == InitAuto /\ [][NextAuto]_vars

\* dni_a_nombre_completo applied to a result
InitNombre ==
    /\ token = TRUE /\ upstream = "steady" /\ callsLeft = 0
    /\ IdleLookup /\ IdleValid
    /\ store = [t \in Tabs |-> <<>>]
    /\ call = [u \in Users |-> NoCall]
    /\ wsCache = FALSE
    /\ \E r \in PersonRecords :
          ui = [u \in Users |->
                  [NoUi EXCEPT !.res = [person |-> r, kind |-> "given", cb |-> ""]]]

Nombre(u) ==
    /\ ui[u].res.kind = "given"
    /\ ui' = [ui EXCEPT ![u].res.kind = "applied",
                        ![u].nombre = dni_a_nombre_completo(ui[u].res.person)]
    /\ UNCHANGED <<store, call, wsCache>>
    /\ UNCHANGED <<lookupVars, validVars>>

NextNombre == \E u \in Operator : Nombre(u)

SpecNombre == InitNombre /\ [][NextNombre]_vars

\* ---- C17: the name assembled from a person record ----
\* a and b joined by one space, either left out when empty
Joined(a, b) == IF a = "" THEN b ELSE IF b = "" THEN a ELSE a \o " " \o b
\* s without surrounding spaces
TrimmedStr(s) == Join(Trimmed(Chars(s)))

\* C17: dni_a_nombre_completo returns the given name, the first surname and
\* the second surname (each without surrounding spaces) joined by single
\* spaces in that order, parts that are empty or blank left out, in upper
\* case; when all three are empty or blank it returns the full-name field
\* (without surrounding spaces, as it is), the empty string when there is none.
C17_NameAssembledInOrder ==
    \A u \in Users :
        (ui[u].res # <<>> /\ ui[u].res.kind = "applied") =>
            LET r == ui[u].res.person
                n == TrimmedStr(r.first_name)
                a == TrimmedStr(r.first_last_name)
                b == TrimmedStr(r.second_last_name)
            IN  ui[u].nombre =
                   IF n = "" /\ a = "" /\ b = "" THEN TrimmedStr(r.full_name)
                   ELSE str_upper(Joined(Joined(n, a), b))

\* a record with a given name and a second surname only: the two, upper-cased,
\* one space between them
C17_Witness ==
    \E u \in Users :
        /\ ui[u].res # <<>> /\ ui[u].res.kind = "applied"
        /\ ui[u].res.person.first_name = "ana "
        /\ ui[u].res.person.first_last_name = ""
        /\ ui[u].res.person.second_last_name = "Díaz"
        /\ ui[u].nombre = "ANA DÍAZ"

\* ---- C18: a failed lookup leaves the session and the name alone ----
\* C18: in every autocomplete callback a validation error, a service error or
\* any other exception of the lookup is caught: a message is stored for
\* display and the applicant-name field keeps its value; the field is
\* overwritten only when the lookup returned and gave a non-empty name.
C18_FailedLookupKeepsName ==
    \A u \in Users :
        IF ui[u].res = <<>> THEN ui[u].name = "NOMBRE TECLEADO"
        ELSE /\ ui[u].res.kind # "return" =>
                   ui[u].msg = "error" /\ ui[u].name = "NOMBRE TECLEADO"
             /\ ui[u].name # "NOMBRE TECLEADO" =>
                   ui[u].res.kind = "return" /\ ui[u].nombre # ""

\* a request of the lookup raised a transport exception inside a callback:
\* the message is stored, the name is as typed, the session goes on
C18_Witness ==
    \E u \in Users :
        /\ ui[u].res # <<>>
        /\ ui[u].res.kind = "RequestException"
        /\ ui[u].msg = "error" /\ ui[u].name = "NOMBRE TECLEADO"
        /\ pc = "idle"

NextGen ==
    \/ \E u \in Users, page \in Pages, exists \in BOOLEAN : GenStart(u, page, exists)
    \/ \E u \in Users, ok \in BOOLEAN, partial \in BOOLEAN : GenStep(u, ok, partial)

SpecGen == InitStore /\ [][NextGen]_vars

\* ---- C19: a failed generation leaves nothing behind ----
\* C19: when the template is missing or DocxTemplate / render raises, the
\* failure is shown (st.error, or the exception Streamlit displays) and the
\* generation stops there: a file is written under salidas/ and a download is
\* offered only by a generation whose template was rendered completely.
C19_NoArtifactUnlessRendered ==
    /\ [](\A u \in Users :
            /\ ui[u].download => ui[u].rendered
            /\ ui[u].fail \in {"exists", "DocxTemplate", "render"} =>
                  /\ ui[u].gen = NoGen /\ ~ui[u].download
                  /\ ui[u].msg \in {"error", "exception"})
    /\ [][\A u \in Users :
            ui'[u].salidas # ui[u].salidas => ui[u].rendered /\ ui[u].fail \in {"", "write"}]_vars

\* the permits page: render raised after an earlier generation had written
\* its file; the exception is shown, no download is offered
C19_Witness ==
    \E u \in Users :
        /\ ui[u].fail = "render" /\ ui[u].gen = NoGen
        /\ ui[u].msg = "exception" /\ ~ui[u].download /\ ~ui[u].rendered
        /\ ui[u].salidas = {"permisos"}

(***************************************************************************)
(* app_permisos.py: _coordenadas_validas on one coordinate text            *)
(***************************************************************************)
\* texts of a part and the number each one writes, in tenths; the texts that
\* write no number of the real line are not in the table
NumberTexts ==
    [t \in {"-12.1", "90", "90.0", "-90", "90.1", "91", "+76.8", "-76.8",
            "180", "-180.0", "180.1", "-181", "0", ".5", "5."} |->
        CASE t = "-12.1" -> -121 [] t = "90" -> 900 [] t = "90.0" -> 900
          [] t = "-90" -> -900 [] t = "90.1" -> 901 [] t = "91" -> 910
          [] t = "+76.8" -> 768 [] t = "-76.8" -> -768 [] t = "180" -> 1800
          [] t = "-180.0" -> -1800 [] t = "180.1" -> 1801 [] t = "-181" -> -1810
          [] t = "0" -> 0 [] t = ".5" -> 5 [] OTHER -> 50]
NotNumbers == {"", "abc", "1.2.3", "--1", "nan", "inf", "1 2"}
LatTexts == {"-12.1", "90", "90.0", "-90", "90.1", "91", ".5", "5."} \cup NotNumbers
LonTexts == {"-76.8", "+76.8", "180", "-180.0", "180.1", "-181", "0"} \cup NotNumbers
\* what stands between the two parts, and around the whole
Separators == {",", ", ", " , ", " ", ";", ",76,"}
Margins == {"", " "}
CoordParts == [lat : LatTexts, sep : Separators, lon : LonTexts, margin : Margins]
CoordText(p) == p.margin \o p.lat \o p.sep \o p.lon \o p.margin

\* the form hands the text of the coordinates field to _coordenadas_validas
ValidarCoordenadas(u) ==
    /\ ui[u].valid = ""
    /\ ui' = [ui EXCEPT ![u].valid =
                 IF coordenadas_validas(CoordText(ui[u].partes)) THEN "si" ELSE "no"]
    /\ UNCHANGED <<store, call, wsCache>>
    /\ UNCHANGED <<lookupVars, validVars>>

InitCoord ==
    /\ token = TRUE /\ upstream = "steady" /\ callsLeft = 0
    /\ IdleLookup /\ IdleValid
    /\ store = [t \in Tabs |-> <<>>]
    /\ wsCache = FALSE
    /\ call = [u \in Users |-> NoCall]
    /\ \E p \in CoordParts :
          ui = [u \in Users |-> IF u \in Operator THEN [NoUi EXCEPT !.partes = p]
                                ELSE NoUi]

NextCoord == \E u \in Operator : ValidarCoordenadas(u)

SpecCoord == InitCoord /\ [][NextCoord]_vars

\* ---- C21: the coordinates accepted ----
\* C21: _coordenadas_validas accepts a text exactly when a comma separates
\* two parts that, spaces around them aside, write numbers, the first within
\* [-90, 90] and the second within [-180, 180]; the empty text, a text without
\* a comma, a part that writes no number (nan and inf included), a second
\* comma and a value out of range are rejected.
C21_AcceptsExactlyLatLon ==
    \A u \in Operator :
        LET p == ui[u].partes
            num(t) == t \in DOMAIN NumberTexts
        IN  ui[u].valid # "" =>
               (ui[u].valid = "si" <=>
                   /\ p.sep \in {",", ", ", " , "}
                   /\ num(p.lat) /\ num(p.lon)
                   /\ -900 <= NumberTexts[p.lat] /\ NumberTexts[p.lat] <= 900
                   /\ -1800 <= NumberTexts[p.lon] /\ NumberTexts[p.lon] <= 1800)

\* " 90.0 , -180.0 " has been accepted: both values on the edge of the range
C21_Witness ==
    \E u \in Operator :
        /\ ui[u].valid = "si"
        /\ ui[u].partes = [lat |-> "90.0", sep |-> " , ", lon |-> "-180.0", margin |-> " "]

\* "90.1, 0" has been rejected: a latitude a tenth of a degree too large
C21_WitnessRejected ==
    \E u \in Operator :
        /\ ui[u].valid = "no"
        /\ ui[u].partes = [lat |-> "90.1", sep |-> ", ", lon |-> "0", margin |-> ""]

(***************************************************************************)
(* utils.py and app_permisos.py: safe_filename_pretty                      *)
(***************************************************************************)
prohibidos == {"<", ">", ":", "\"", "/", "\\", "|", "?", "*"}
\* limpio.replace(a, b) for a single character a
str_replace(cs, a, b) == [i \in DOMAIN cs |-> IF cs[i] = a THEN b ELSE cs[i]]

\* safe_filename_pretty whose list of forbidden characters lacks the backslash
safe_filename_pretty_keeps_backslash(texto) ==
    LET limpio == [i \in DOMAIN texto |->
                      IF texto[i] \in prohibidos \ {"\\"} THEN "_" ELSE texto[i]]
    IN  strip(str_replace(str_replace(limpio, "\n", " "), "\r", " "))

\* utils.safe_filename_pretty
safe_filename_pretty(texto) ==
    LET limpio == [i \in DOMAIN texto |->
                      IF texto[i] \in prohibidos THEN "_" ELSE texto[i]]
    IN  strip(str_replace(str_replace(limpio, "\n", " "), "\r", " "))

\* the copy of app_permisos.py
safe_filename_pretty_permisos(texto) ==
    LET limpio == [i \in DOMAIN texto |->
                      IF texto[i] \in prohibidos THEN "_" ELSE texto[i]]
    IN  strip(str_replace(str_replace(limpio, "\n", " "), "\r", " "))

NameChars == {"a", "_", "<", "\\", "*", "\n", "\r", " ", "\t"}
NameInputs == UNION {[1..n -> NameChars] : n \in 0..MaxName}

\* a file name is made from a stem: by either copy, and then once more from
\* the name just made
NombrarArchivo(u) ==
    /\ ui[u].limpio = <<>>
    /\ ui' = [ui EXCEPT ![u].limpio =
                 <<[utils |-> safe_filename_pretty(ui[u].texto),
                    permisos |-> safe_filename_pretty_permisos(ui[u].texto)]>>]
    /\ UNCHANGED <<store, call, wsCache>>
    /\ UNCHANGED <<lookupVars, validVars>>

NombrarOtraVez(u) ==
    /\ Len(ui[u].limpio) = 1
    /\ ui' = [ui EXCEPT ![u].limpio =
                 Append(ui[u].limpio,
                        [utils |-> safe_filename_pretty(ui[u].limpio[1].utils),
                         permisos |-> safe_filename_pretty_permisos(ui[u].limpio[1].permisos)])]
    /\ UNCHANGED <<store, call, wsCache>>
    /\ UNCHANGED <<lookupVars, validVars>>

InitName ==
    /\ token = TRUE /\ upstream = "steady" /\ callsLeft = 0
    /\ IdleLookup /\ IdleValid
    /\ store = [t \in Tabs |-> <<>>]
    /\ wsCache = FALSE
    /\ call = [u \in Users |-> NoCall]
    /\ \E t \in NameInputs :
          ui = [u \in Users |-> IF u \in Operator THEN [NoUi EXCEPT !.texto = t]
                                ELSE NoUi]

NextName ==
    \/ \E u \in Operator : NombrarArchivo(u)
    \/ \E u \in Operator : NombrarOtraVez(u)

SpecName == InitName /\ [][NextName]_vars

\* ---- C22: the file name made from a stem ----
\* C22: safe_filename_pretty returns the stem with each of < > : " / \ | ? *
\* replaced by '_' and each newline or carriage return by a space, cut down
\* to the stretch from its first to its last non-whitespace character, every
\* other character kept in place; the result holds no forbidden character,
\* cleaning it once more returns it unchanged, and the copies of utils.py and
\* app_permisos.py return the same.
C22_FileNameCleaned ==
    \A u \in Operator :
        LET t == ui[u].texto
            m == [i \in DOMAIN t |->
                    CASE t[i] \in {"<", ">", ":", "\"", "/", "\\", "|", "?", "*"} -> "_"
                      [] t[i] \in {"\n", "\r"} -> " "
                      [] OTHER -> t[i]]
            ink == {i \in DOMAIN m : m[i] \notin {" ", "\t"}}
            expected == IF ink = {} THEN <<>>
                        ELSE SubSeq(m, CHOOSE i \in ink : \A j \in ink : i <= j,
                                       CHOOSE i \in ink : \A j \in ink : j <= i)
        IN  /\ Len(ui[u].limpio) >= 1 =>
                 /\ ui[u].limpio[1].utils = expected
                 /\ ui[u].limpio[1].permisos = ui[u].limpio[1].utils
                 /\ \A i \in DOMAIN expected :
                       expected[i] \notin {"<", ">", ":", "\"", "/", "\\", "|", "?", "*"}
            /\ Len(ui[u].limpio) = 2 => ui[u].limpio[2] = ui[u].limpio[1]

\* the stem "\n\\*" has been cleaned, and its name "__" cleaned once more
C22_Witness ==
    \E u \in Operator :
        /\ ui[u].texto = <<"\n", "\\", "*">>
        /\ Len(ui[u].limpio) = 2
        /\ ui[u].limpio[2].utils = <<"_", "_">>

(***************************************************************************)
(* codart.py: one lookup, every step of it taken sooner or later           *)
(***************************************************************************)
\* session.get / session.post carry timeout=25 and the code between two
\* requests has no loop: a step that can be taken is taken
SpecLookupLive == InitLookup /\ [][NextLookup]_vars /\ WF_vars(NextLookup)

\* ---- C23: the requests of one call ----
\* C23: a call of consultar_dni / consultar_ruc ends, having issued at most
\* GET, POST, GET (in this order) to the primary endpoint and then at most
\* GET, POST, GET to the secondary one, none to the primary after the first to
\* the secondary: at most 6 requests.
C23_AtMostSixRequests ==
    /\ [](/\ Len(sent) <= 6
          /\ \A e \in {"A", "B"} :
                /\ Len(SentTo(e)) <= 3
                /\ \A k \in DOMAIN SentTo(e) :
                      SentTo(e)[k].method = <<"GET", "POST", "GET">>[k]
          /\ \A i \in DOMAIN sent, j \in DOMAIN sent :
                (i < j /\ sent[i].ep = "B") => sent[j].ep = "B")
    /\ (pc # "idle" ~> pc = "done")

\* a call has ended after six requests, three to each endpoint
C23_Witness ==
    /\ pc = "done"
    /\ Len(sent) = 6
    /\ Len(SentTo("A")) = 3 /\ Len(SentTo("B")) = 3

\* ---- C24: what sends a call to the secondary endpoint ----
\* C24: the secondary endpoint is queried only when the primary endpoint's
\* response status was 404 or 406, whatever text the upstream sent; stated
\* for the calls whose primary endpoint answered once: if a request went to
\* the secondary endpoint, that one answer had status 404 or 406.
C24_SecondaryOnlyAfter404or406 ==
    (Len(SentTo("B")) > 0 /\ prim.n = 1) => prim.first \in {404, 406}

\* ---- C25: what enters the cache ----
Raised(kind) == kind \in {"ValueError", "CodartAPIError", "RequestException"}

\* C25 as stated: the call after one that raised, made with the same
\* identifier, issues outbound requests again.
C25_RequestsAgainAfterFailure ==
    (pc = "done" /\ Raised(prev.kind) /\ prev.fn = fn /\ prev.arg = arg)
    => Len(sent) > 0

\* C25: the cache changes only when a call returns a record it fetched; the
\* call after one that raised, made with the same function and argument, is
\* not served from the cache: it validates the identifier again and, when the
\* identifier is valid and the token is set, issues outbound requests again
\* (an invalid identifier raises again without any request); and a call that
\* finds a cached record of its function and argument younger than 24 h
\* issues no request and returns that record: the one the first call
\* returned.
C25_OnlyFetchedRecordsCached ==
    /\ [][cache' # cache =>
            /\ pc' = "done" /\ outcome'.kind = "return" /\ ~outcome'.cached
            /\ Len(sent') > 0
            /\ cache' = (<<fn, arg>> :> [val |-> outcome'.val, at |-> now]) @@ cache]_vars
    /\ []((pc = "done" /\ Raised(prev.kind) /\ prev.fn = fn /\ prev.arg = arg) =>
            /\ ~outcome.cached
            /\ (Validar(fn, arg).ok /\ token) <=> Len(sent) > 0)
    /\ []((pc = "done" /\ <<fn, arg>> \in DOMAIN cache /\ Len(sent) = 0
              /\ now - cache[<<fn, arg>>].at < TTL) =>
            /\ outcome.kind = "return"
            /\ outcome.val = cache[<<fn, arg>>].val)

\* a call failed with a service error; the next call with the same argument
\* queried the service again and returned a record
C25_Witness ==
    /\ pc = "done" /\ prev.kind = "CodartAPIError"
    /\ prev.fn = fn /\ prev.arg = arg
    /\ Len(sent) > 0 /\ outcome.kind = "return" /\ ~outcome.cached
    /\ <<fn, arg>> \in DOMAIN cache

(***************************************************************************)
(* sheets_comercio.py: appends and updates by key, one call after another  *)
(***************************************************************************)
NumberedOps == {"append_evaluacion", "append_documento"}
NumberedUpdates == {"actualizar_estado_documento", "actualizar_evaluacion_con_resolucion"}

NextSeq ==
    \/ \E u \in Operator, op \in NumberedOps, who \in Persons :
          Submit(u, op, Kwargs(op, who, FALSE))
    \/ \E u \in Operator, op \in NumberedUpdates :
          \E key \in UpdateKeys(op), tag \in UpdateTags :
              SubmitUpdate(u, op, UpdateKwargs(op, key, tag))
    \/ \E u \in Users : GetWorksheet(u)
    \/ \E u \in Users : WriteHeader(u)
    \/ \E u \in Users : LeerDf(u)
    \/ \E u \in Users : LeerUpdate(u)
    \/ \E u \in Users : Clear(u)
    \/ \E u \in Users : Update(u)
    \/ \E u \in Users : StoreError(u)
    \/ \E u \in Users : Ack(u)

SpecSeq == InitStore /\ [][NextSeq]_vars

\* ---- C26: the correlative of the numbered tabs ----
\* C26: on Evaluaciones_CA and Documentos_CA, filled from empty by appends
\* and updates by key made one after another, the N° cells of the data rows
\* read "1", "2", ..., "n" from the first row to the last.
C26_CorrelativeGapFree ==
    \A op \in NumberedOps :
        LET rows == DataRows(store[SheetOf(op)])
            k == IndexOf(ColumnasOf(op), "N°")
        IN  \A i \in DOMAIN rows : rows[i][k] = Str(i)

\* an update by key has rewritten a tab of two rows: they still read 1 and 2
C26_Witness ==
    \E u \in Operator :
        LET c == call[u]
            rows == DataRows(store[SheetOf(c.op)])
        IN  /\ c.pc = "ok" /\ c.op \in NumberedUpdates
            /\ c.df # <<>> /\ store[SheetOf(c.op)] # c.before
            /\ Len(rows) = 2
            /\ rows[1][1] = "1" /\ rows[2][1] = "2"

\* ---- C28: the two permit tabs after Guardar TODO ----
\* the data rows of the tab of op whose column col holds the code
RowsWithCode(op, col, code) ==
    Cardinality({i \in DOMAIN DataRows(store[SheetOf(op)]) :
                    DataRows(store[SheetOf(op)])[i][IndexOf(ColumnasOf(op), col)] = code})

\* C28: whenever no Guardar TODO is running, Evaluaciones_CA and
\* Autorizaciones_CA hold the same number of rows of the session's evaluation
\* code, store calls that failed part-way and manual retries included.
C28_PermitTabsConsistent ==
    (\A u \in Users : ui[u].handler = "" /\ call[u].pc = "idle") =>
        RowsWithCode("append_evaluacion", "N° DE EVALUACIÓN", CodEvaluacion)
          = RowsWithCode("append_autorizacion", "N° DE EVALUACION", CodEvaluacion)

(***************************************************************************)
(* app_documentos.py, app_permisos.py: a document from registration to     *)
(* Guardar TODO                                                            *)
(***************************************************************************)
\* numbers typed into "N° de Documento Simple": the page shows both alike,
\* its style sheet displays every input in upper case
NumDsInputs == {"DS-1", "ds-1"}

NextCycle ==
    \/ \E u \in Operator, num_ds \in NumDsInputs :
          RegistrarDocumento(u, "12345678", num_ds, TRUE)
    \/ \E u \in Operator, i \in 1..MaxRows : CargarDS(u, i)
    \/ \E u \in Operator :
          GenerarEvaluacion(u, "12345678", "-12.1, -76.8", ui[u].ds, TRUE, TRUE)
    \/ \E u \in Users : GenStep(u, TRUE, FALSE)
    \/ \E u \in Operator : GuardarTodo(u, TRUE)
    \/ \E u \in Users : Siguiente(u)
    \/ \E u \in Users : Termina(u)
    \/ \E u \in Users : GetWorksheet(u)
    \/ \E u \in Users : WriteHeader(u)
    \/ \E u \in Users : LeerDf(u)
    \/ \E u \in Users : LeerUpdate(u)
    \/ \E u \in Users : Clear(u)
    \/ \E u \in Users : Update(u)
    \/ \E u \in Users : StoreError(u)

SpecCycle == InitStore /\ [][NextCycle]_vars

\* ---- C27: the ESTADO of a document ----
DocRows == leer_df(get_all_values(store[DOCS_SHEET_NAME]), COLUMNAS_DOCUMENTOS)

\* C27: a document is registered with ESTADO PENDIENTE; when every store
\* call of a Guardar TODO has returned, for an evaluation whose DS was loaded
\* from a pending document, that document reads AUTORIZADO and
\* documentos_para_evaluacion does not return it; and no step moves a
\* document from AUTORIZADO to PENDIENTE or EN EVALUACION.
C27_DocumentLifecycle ==
    /\ [](\A u \in Users :
            /\ (call[u].op = "append_documento" /\ call[u].pc = "ok") =>
                  DocCell(DocRows[Len(DocRows)], "ESTADO") = "PENDIENTE"
            /\ ( /\ ui[u].handler = "guardar" /\ call[u].pc = "ok" /\ ui[u].rest = <<>>
                 /\ ui[u].ds # ""
                 /\ ui[u].eval_ctx.ds = to_upper(ui[u].ds) ) =>
                  \A i \in DOMAIN DocRows :
                      DocCell(DocRows[i], "N° DE DOCUMENTO SIMPLE") = ui[u].ds =>
                          /\ DocCell(DocRows[i], "ESTADO") = "AUTORIZADO"
                          /\ \A k \in DOMAIN documentos_para_evaluacion(DocRows) :
                                documentos_para_evaluacion(DocRows)[k] # DocRows[i])
    /\ [][\A i \in DOMAIN DocRows :
             (DocCell(DocRows[i], "ESTADO") = "AUTORIZADO" /\ i \in DOMAIN DocRows') =>
                 DocCell(DocRows'[i], "ESTADO") \notin {"PENDIENTE", "EN EVALUACION"}]_vars

(***************************************************************************)
(* app_permisos.py: Modulo 1 (Evaluacion) before Resolucion, Certificado   *)
(* and Guardar TODO                                                        *)
(***************************************************************************)
\* the buttons of the permits page in one session, every input of the
\* evaluation form, templates present or missing
NextFlow ==
    \/ \E u \in Operator, dni \in DniInputs, coordenadas \in CoordInputs,
          ds \in DsInputs, filled \in BOOLEAN, exists \in BOOLEAN :
          GenerarEvaluacion(u, dni, coordenadas, ds, filled, exists)
    \/ \E u \in Operator, complete \in BOOLEAN, exists \in BOOLEAN :
          GenerarResolucion(u, complete, exists)
    \/ \E u \in Operator, complete \in BOOLEAN, exists \in BOOLEAN :
          GenerarCertificado(u, complete, exists)
    \/ \E u \in Operator, complete \in BOOLEAN : GuardarTodo(u, complete)
    \/ \E u \in Users, ok \in BOOLEAN : GenStep(u, ok, FALSE)
    \/ \E u \in Users : Siguiente(u)
    \/ \E u \in Users : Termina(u)
    \/ \E u \in Users : GetWorksheet(u)
    \/ \E u \in Users : WriteHeader(u)
    \/ \E u \in Users : LeerDf(u)
    \/ \E u \in Users : LeerUpdate(u)
    \/ \E u \in Users : Clear(u)
    \/ \E u \in Users : Update(u)
    \/ \E u \in Users : StoreError(u)

SpecFlow == InitStore /\ [][NextFlow]_vars

\* ---- C29: nothing before the evaluation ----
\* the session has no evaluation context and nothing of the later modules:
\* no store call, no generation, no file, no download, no row in the store
NothingDone(u) ==
    /\ call[u].pc = "idle" /\ ui[u].handler = ""
    /\ ui[u].gen = NoGen /\ ui[u].salidas = {} /\ ~ui[u].download /\ ~ui[u].rendered
    /\ TotalRows = 0

\* C29: eval_ctx comes into being only in a Generar Evaluacion whose document
\* has 8 or 9 digits, whose coordinates are valid and that misses no required
\* field; while a session has no eval_ctx its buttons only show a warning or
\* an error: no document is generated and nothing is written to the store.
C29_EvaluationFirst ==
    /\ [](\A u \in Operator : ui[u].eval_ctx = NoCtx => NothingDone(u))
    /\ [][\A u \in Operator :
             /\ (ui[u].eval_ctx = NoCtx /\ ui'[u].eval_ctx # NoCtx) =>
                   /\ ~ui'[u].falt
                   /\ doc_identidad_valido(Chars(ui'[u].eval_ctx.dni))
                   /\ coordenadas_validas(ui'[u].eval_ctx.coordenadas)
             /\ (ui'[u].eval_ctx = NoCtx /\ ui'[u] # ui[u]) =>
                   /\ ui'[u].msg \in {"warning", "error"}
                   /\ store' = store]_vars

\* Resolucion was asked for in a session without eval_ctx
C29_Witness ==
    \E u \in Operator : ui[u].eval_ctx = NoCtx /\ ui[u].msg = "warning"

\* an evaluation context exists and Guardar TODO has written with it
C29_WitnessCreated ==
    \E u \in Operator : ui[u].eval_ctx # NoCtx /\ TotalRows > 0

(***************************************************************************)
(* app_anuncios.py: evaluation, certificate, "Guardar ultimo certificado"  *)
(***************************************************************************)
\* what is typed in the evaluation form and in the certificate form
NombreSolInputs == {"", " ana ", "luz"}
NumDsSolInputs == {"", "12 "}
NCertificadoInputs == {"", "C1"}
DocTipoInputs == {"DNI", "C.E"}
DocNumInputs == {"", " 12345678", "1234567"}
\* how consultar_dni ends: it returns, or raises ValueError / CodartAPIError,
\* or any other exception
Consultas == {"ok", "CodartAPIError", "Exception"}
\* how DocxTemplate / render / save / st.download_button end: all return, or
\* one raises (jinja2.TemplateSyntaxError has an except clause of its own that
\* shows more lines of st.error and does nothing else)
Renders == {"ok", "Exception"}

\* the certificate form's document check that takes a number of any length
documento_cert_valido_any_length(doc_tipo, doc_num, consulta) ==
    LET doc_tipo_norm == str_upper(str_strip(doc_tipo))
        doc_num_clean == strip(Chars(doc_num))
    IN  \/ doc_num_clean = <<>>
        \/ doc_tipo_norm = "DNI" /\ isdigit(doc_num_clean) /\ consulta = "ok"
        \/ doc_tipo_norm # "DNI" /\ isdigit(doc_num_clean)

\* the certificate form's document check: none entered, a DNI of 8 digits
\* that consultar_dni returned a record for, or a C.E of 9 digits
documento_cert_valido(doc_tipo, doc_num, consulta) ==
    LET doc_tipo_norm == str_upper(str_strip(doc_tipo))
        doc_num_clean == strip(Chars(doc_num))
    IN  \/ doc_num_clean = <<>>
        \/ /\ doc_tipo_norm = "DNI"
           /\ isdigit(doc_num_clean) /\ Len(doc_num_clean) = 8
           /\ consulta = "ok"
        \/ /\ doc_tipo_norm # "DNI"
           /\ isdigit(doc_num_clean) /\ Len(doc_num_clean) = 9

\* consultar_dni is called: a DNI number was entered and it has 8 digits
consulta_hecha(doc_tipo, doc_num) ==
    LET doc_num_clean == strip(Chars(doc_num))
    IN  /\ str_upper(str_strip(doc_tipo)) = "DNI"
        /\ isdigit(doc_num_clean) /\ Len(doc_num_clean) = 8

\* guardar_certificado_en_bd: nueva_fila from the evaluation context and the
\* certificate data; the cells of the other form fields name their column
guardar_certificado_fila(eval_ctx, meta) ==
    [c \in Range(COLUMNAS_OFICIALES) |->
        CASE c = "EXP" -> str_strip(eval_ctx.num_ds)
          [] c = "RAZÓN SOCIAL DEL SOLICITANTE" -> str_upper(str_strip(eval_ctx.nombre))
          [] c = "NÚMERO DE AUTORIZACION " -> meta.n_certificado
          [] c = "TIPO DE DOCUMENTO DE IDENTIDAD DEL SOLICITANTE" -> meta.doc_tipo
          [] c = "NÚMERO DE DOCUMENTO DE IDENTIDAD DEL SOLICITANTE" -> meta.doc_num
          [] c = "ANCHO" -> ""
          [] OTHER -> "E:" \o c]

\* "Generar evaluacion (.docx)": the check of the three fields,
\* st.session_state["anuncio_eval_ctx"], then the document
GenerarEvaluacionAnuncio(u, nombre_sol, n_anuncio, num_ds, render) ==
    /\ Ready(u)
    /\ LET nombre == str_strip(nombre_sol)
       IN  IF nombre = "" \/ n_anuncio = "" \/ num_ds = ""
           THEN ui' = [ui EXCEPT ![u] = Shown(ui[u], "error")]
           ELSE ui' = [ui EXCEPT ![u] =
                         [Shown(ui[u], IF render = "ok" THEN "success" ELSE "error")
                            EXCEPT !.anuncio_eval_ctx =
                                       [nombre |-> nombre, num_ds |-> num_ds],
                                   !.rendered = render = "ok",
                                   !.download = render = "ok",
                                   !.fail = IF render = "ok" THEN "" ELSE render]]
    /\ UNCHANGED <<store, call, wsCache>>
    /\ UNCHANGED <<lookupVars, validVars>>

\* "Generar certificado (.docx)", a form shown only with anuncio_eval_ctx:
\* the number, the document and its lookup, the certificate, and after the
\* download button the two session keys for the save
GenerarCertificadoAnuncio(u, n_certificado, doc_tipo, doc_num, consulta, render) ==
    /\ Ready(u)
    /\ ui[u].anuncio_eval_ctx # NoCtx
    /\ LET eval_ctx == ui[u].anuncio_eval_ctx
           hecha == n_certificado # "" /\ consulta_hecha(doc_tipo, doc_num)
           page == [Shown(ui[u], "error") EXCEPT
                       !.consulta = IF hecha THEN consulta ELSE ""]
       IN  IF n_certificado = "" THEN ui' = [ui EXCEPT ![u] = page]
           ELSE IF ~documento_cert_valido(doc_tipo, doc_num, consulta)
           THEN ui' = [ui EXCEPT ![u] = page]
           ELSE IF render # "ok"
           THEN ui' = [ui EXCEPT ![u] = [page EXCEPT !.fail = render]]
           ELSE ui' = [ui EXCEPT ![u] =
                         [page EXCEPT
                             !.msg = "success", !.rendered = TRUE, !.download = TRUE,
                             !.anuncio_ultimo_cert_eval = eval_ctx,
                             !.anuncio_ultimo_cert_meta =
                                 [n_certificado |-> n_certificado,
                                  doc_tipo |-> doc_tipo, doc_num |-> doc_num]]]
    /\ UNCHANGED <<store, call, wsCache>>
    /\ UNCHANGED <<lookupVars, validVars>>

\* "Guardar ultimo certificado en BD", a button shown only with both session
\* keys: guardar_certificado_en_bd builds nueva_fila and reads the sheet
GuardarUltimoCertificado(u) ==
    /\ Ready(u)
    /\ ui[u].anuncio_ultimo_cert_eval # NoCtx
    /\ ui[u].anuncio_ultimo_cert_meta # NoCtx
    /\ Len(DataRows(store[SHEET_NAME])) < MaxCerts
    /\ call' = [call EXCEPT ![u] =
                   [NoCall EXCEPT !.pc = IF wsCache THEN "c_leer" ELSE "c_gw_leer",
                                  !.op = "guardar_certificado_en_bd",
                                  !.kw = guardar_certificado_fila(
                                             ui[u].anuncio_ultimo_cert_eval,
                                             ui[u].anuncio_ultimo_cert_meta),
                                  !.before = store[SHEET_NAME]]]
    /\ ui' = [ui EXCEPT ![u] = [Shown(ui[u], "") EXCEPT !.handler = "guardar_cert"]]
    /\ UNCHANGED <<store, wsCache>>
    /\ UNCHANGED <<lookupVars, validVars>>

\* the three buttons of the advertisement page in one session
NextAnuncios ==
    \/ \E u \in Operator, nombre_sol \in NombreSolInputs, num_ds \in NumDsSolInputs,
          render \in Renders :
          GenerarEvaluacionAnuncio(u, nombre_sol, "001", num_ds, render)
    \/ \E u \in Operator, n_certificado \in NCertificadoInputs,
          doc_tipo \in DocTipoInputs, doc_num \in DocNumInputs,
          consulta \in Consultas, render \in Renders :
          GenerarCertificadoAnuncio(u, n_certificado, doc_tipo, doc_num, consulta,
                                    render)
    \/ \E u \in Operator : GuardarUltimoCertificado(u)
    \/ \E u \in Users : Termina(u)
    \/ \E u \in Users : CertGetWorksheet(u)
    \/ \E u \in Users : CertWriteHeader(u)
    \/ \E u \in Users : CertLeer(u)
    \/ \E u \in Users : CertLeerError(u)
    \/ \E u \in Users : Clear(u)
    \/ \E u \in Users : Update(u)
    \/ \E u \in Users : StoreError(u)

SpecAnuncios == InitStore /\ [][NextAnuncios]_vars

\* ---- C30: what "Guardar ultimo certificado" writes ----
\* the data rows of the certificates sheet, as rows of cells
CertRows == DataRows(store[SHEET_NAME])
\* nueva_fila as the row of cells _escribir writes for it
CertCells(eval_ctx, meta) ==
    [j \in DOMAIN COLUMNAS_OFICIALES |->
        guardar_certificado_fila(eval_ctx, meta)[COLUMNAS_OFICIALES[j]]]

\* C30: a data row reaches the certificates sheet only in the save of a
\* session that holds the data of a generated certificate, and the row is the
\* one built from that data; that data is set only by a run that rendered
\* the certificate and offered it, with a non-empty certificate number, with
\* a DNI, if one was entered, of 8 digits for which the lookup returned, and
\* from the evaluation context submitted before.
C30_SaveAfterCertificate ==
    /\ [][(CertRows' # CertRows /\ CertRows' # <<>>) =>
             \E u \in Users :
                /\ call[u].op = "guardar_certificado_en_bd"
                /\ ui[u].handler = "guardar_cert"
                /\ ui[u].anuncio_ultimo_cert_eval # NoCtx
                /\ ui[u].anuncio_ultimo_cert_meta # NoCtx
                /\ CertRows'[Len(CertRows')] =
                       CertCells(ui[u].anuncio_ultimo_cert_eval,
                                 ui[u].anuncio_ultimo_cert_meta)]_vars
    /\ [][\A u \in Users :
             (\/ ui'[u].anuncio_ultimo_cert_eval # ui[u].anuncio_ultimo_cert_eval
              \/ ui'[u].anuncio_ultimo_cert_meta # ui[u].anuncio_ultimo_cert_meta) =>
                LET meta == ui'[u].anuncio_ultimo_cert_meta
                    num == strip(Chars(meta.doc_num))
                IN  /\ ui'[u].rendered /\ ui'[u].download /\ ui'[u].msg = "success"
                    /\ meta.n_certificado # ""
                    /\ (num # <<>> /\ str_upper(str_strip(meta.doc_tipo)) = "DNI") =>
                          /\ isdigit(num) /\ Len(num) = 8
                          /\ ui'[u].consulta = "ok"
                    /\ ui[u].anuncio_eval_ctx # NoCtx
                    /\ ui'[u].anuncio_ultimo_cert_eval = ui[u].anuncio_eval_ctx]_vars
    /\ [](\A u \in Users :
             ui[u].anuncio_ultimo_cert_eval = NoCtx
                <=> ui[u].anuncio_ultimo_cert_meta = NoCtx)

\* a certificate was generated for one evaluation, another evaluation was
\* submitted after it, and the save has written the certificate's row
C30_Witness ==
    \E u \in Users :
        /\ ui[u].handler = "guardar_cert" /\ call[u].pc = "ok"
        /\ CertRows # <<>>
        /\ ui[u].anuncio_eval_ctx # ui[u].anuncio_ultimo_cert_eval
        /\ strip(Chars(ui[u].anuncio_ultimo_cert_meta.doc_num)) # <<>>
        /\ ui[u].anuncio_ultimo_cert_meta.doc_tipo = "DNI"

====
